---- MODULE Spec2Model ----
(***************************************************************************)
(* Connection lifecycle manager of the SQL Server parquet exporter         *)
(* (src/src/database/sqlserver_connection.py, class SQLServerConnection).  *)
(*                                                                         *)
(* The state is the manager's two fields (_connection,                     *)
(* _openssl_patch_file), the two process-wide resources the manager        *)
(* touches (the OPENSSL_CONF entry of os.environ and the temporary policy  *)
(* file on disk), and the driver's record of the handles it has opened     *)
(* and of the handles whose close() has been called.  One action per       *)
(* public method; every driver and file-system call is an input whose      *)
(* outcome is chosen nondeterministically among the outcomes the code      *)
(* distinguishes.                                                          *)
(***************************************************************************)
EXTENDS Integers, Sequences, FiniteSets, TLC

(* ------------------------------------------------------------------ *)
(* Bounds                                                              *)
(* ------------------------------------------------------------------ *)

\* The driver opens at most this many handles in one behaviour.
MaxHandles == 3

\* `with manager:` blocks nested at most this deep.
MaxScopeDepth == 2

(* ------------------------------------------------------------------ *)
(* Values                                                              *)
(* ------------------------------------------------------------------ *)

\* Python's None: an absent handle, an untracked policy file, an unset
\* environment variable (os.environ.get returns None), a method that
\* falls off its end.
None == "None"

\* The manager instances of the process.
Managers == {"m1"}

\* os.path.join(tempfile.gettempdir(), f"openssl_legacy_mysql_parquet_{os.getpid()}.cnf"):
\* one path per process.
PatchPath == "/tmp/openssl_legacy_mysql_parquet_<pid>.cnf"

\* A value of OPENSSL_CONF that an operator set before the program ran.
ExternalConf == "/etc/ssl/openssl_operator.cnf"

\* sys.platform
Platforms == {"darwin", "linux"}

\* self.config.host, used in one troubleshooting hint.
Host == "db1"

\* The n-th handle pyodbc.connect returns.
Handle(n) == "conn" \o ToString(n)

(* ------------------------------------------------------------------ *)
(* Text: a string is a sequence of fragments; `x in s` looks for the   *)
(* fragment x, str.lower() lowers every fragment.                      *)
(* ------------------------------------------------------------------ *)

\* str.lower() of one fragment.
lower(frag) ==
    CASE frag = "TCP Provider" -> "tcp provider"
      [] frag = "Login failed" -> "login failed"
      [] frag = "Cannot open database" -> "cannot open database"
      [] frag = "SSL" -> "ssl"
      [] frag = "Certificate" -> "certificate"
      [] frag = "0X2746" -> "0x2746"
      [] frag \in {"No", "NO"} -> "no"
      [] frag \in {"Yes", "YES"} -> "yes"
      [] OTHER -> frag

\* str(error).lower()
Lower(text) == [i \in DOMAIN text |-> lower(text[i])]

\* needle in text
In(needle, text) == \E i \in DOMAIN text : text[i] = needle

\* sub in text, for a sub of several fragments (a contiguous run of text).
Contains(text, sub) ==
    \E k \in 0..(Len(text) - Len(sub)) :
        \A i \in 1..Len(sub) : text[k + i] = sub[i]

\* The texts of the pyodbc.Error a failed open attempt carries.
ErrorTexts ==
    { <<"[08001] ", "TCP Provider", ": Error code ", "0x2746">>,
      <<"[08001] ", "TCP Provider", ": Error code ", "10061">>,
      <<"[08S01] ", "Communication link failure ", "10054">>,
      <<"[28000] ", "Login failed", " for user">>,
      <<"[HYT00] ", "Login timeout expired">> }

\* What one pyodbc.connect(conn_str) call does: returns a handle, raises
\* pyodbc.Error with a text, or raises something that is no pyodbc.Error.
OpenOutcomes ==
    { [kind |-> "ok", text |-> <<>>], [kind |-> "other", text |-> <<>>] }
    \cup { [kind |-> "error", text |-> t] : t \in ErrorTexts }

\* What the handle's own close() does: returns, raises pyodbc.Error, or
\* raises something that is no pyodbc.Error.
CloseOutcomes == {"ok", "error", "other"}

(* ------------------------------------------------------------------ *)
(* State                                                               *)
(* ------------------------------------------------------------------ *)

VARIABLES
    platform,            \* sys.platform
    auto_apply,          \* getattr(config, 'auto_apply_openssl_patch', True), per manager
    OPENSSL_CONF,        \* os.environ.get('OPENSSL_CONF')
    files,               \* the paths that exist on disk
    _connection,         \* self._connection, per manager
    _openssl_patch_file, \* self._openssl_patch_file, per manager
    opened,              \* driver: the handles opened so far, with the manager that opened each
    closed,              \* driver: the handles whose close() has been called
    scopes,              \* per manager, the `with` blocks entered and not yet left
    last                 \* the last call: what it was given, what it did, what it returned

vars == <<platform, auto_apply, OPENSSL_CONF, files, _connection, _openssl_patch_file, opened, closed, scopes, last>>

(* ------------------------------------------------------------------ *)
(* Helpers of the manager                                              *)
(* ------------------------------------------------------------------ *)

\* bool(os.environ.get('OPENSSL_CONF')): None and "" are falsy.
Truthy(v) == v # None /\ v # ""

\* _is_macos_openssl_issue with the platform test left out.
is_openssl_issue_on_any_platform(error, plat) ==
    LET error_str == Lower(error)
    IN  /\ In("tcp provider", error_str)
        /\ (In("10054", error_str) \/ In("0x2746", error_str))

\* _is_macos_openssl_issue(error)
_is_macos_openssl_issue(error, plat) ==
    LET error_str == Lower(error)
    IN  /\ plat = "darwin"
        /\ In("tcp provider", error_str)
        /\ (In("10054", error_str) \/ In("0x2746", error_str))

\* _apply_openssl_legacy_patch that writes the file and forgets to set
\* os.environ['OPENSSL_CONF'].
apply_patch_without_environ(fs, env, writeOk) ==
    IF writeOk
    THEN [raised |-> "none", path |-> PatchPath, files |-> fs \cup {PatchPath}, env |-> env]
    ELSE [raised |-> "OSError", path |-> None, files |-> fs, env |-> env]

\* _apply_openssl_legacy_patch(): writes the policy file and points
\* OPENSSL_CONF at it; open() may raise OSError (writeOk = FALSE), before
\* anything is changed.
_apply_openssl_legacy_patch(fs, env, writeOk) ==
    IF writeOk
    THEN [raised |-> "none", path |-> PatchPath, files |-> fs \cup {PatchPath}, env |-> PatchPath]
    ELSE [raised |-> "OSError", path |-> None, files |-> fs, env |-> env]

\* A _cleanup_openssl_patch that unsets OPENSSL_CONF without comparing it
\* with the path of the policy file.
cleanup_always_unsetting_environ(patch, fs, env, removeOk) ==
    IF patch # None /\ patch # "" /\ patch \in fs
    THEN IF removeOk
         THEN [patch |-> None, files |-> fs \ {patch}, env |-> None]
         ELSE [patch |-> None, files |-> fs, env |-> env]
    ELSE [patch |-> patch, files |-> fs, env |-> env]

\* A _cleanup_openssl_patch that removes the process's policy file
\* whether or not this manager tracks it.
cleanup_patch_of_any_manager(patch, fs, env, removeOk) ==
    IF PatchPath \in fs
    THEN IF removeOk
         THEN [patch |-> None,
               files |-> fs \ {PatchPath},
               env   |-> IF env = PatchPath THEN None ELSE env]
         ELSE [patch |-> None, files |-> fs, env |-> env]
    ELSE [patch |-> patch, files |-> fs, env |-> env]

\* _cleanup_openssl_patch(): os.remove may raise (removeOk = FALSE), which
\* is swallowed.
_cleanup_openssl_patch(patch, fs, env, removeOk) ==
    IF patch # None /\ patch # "" /\ patch \in fs
    THEN IF removeOk
         THEN [patch |-> None,
               files |-> fs \ {patch},
               env   |-> IF env = patch THEN None ELSE env]
         ELSE [patch |-> None, files |-> fs, env |-> env]
    ELSE [patch |-> patch, files |-> fs, env |-> env]

\* "\n".join([f"  - {s}" for s in suggestions])
RECURSIVE JoinBullets(_)
JoinBullets(suggestions) ==
    IF suggestions = <<>> THEN <<>>
    ELSE IF Len(suggestions) = 1 THEN <<"  - ">> \o Head(suggestions)
    ELSE <<"  - ">> \o Head(suggestions) \o <<"\n">> \o JoinBullets(Tail(suggestions))

\* _build_error_message, lines 144-153: the network/TCP suggestions.
NetworkSuggestions(plat) ==
    << <<"Check if SQL Server is running and accepting TCP connections">>,
       <<"Verify firewall allows port 1433 (or your custom port)">>,
       <<"Try: nc -zv ", Host, " 1433 to test network connectivity">>,
       <<"Consider setting encrypt=no and trust_server_certificate=yes for local connections">> >>
    \o (IF plat = "darwin"
        THEN << <<"On macOS: This may be an OpenSSL 3.0 TLS compatibility issue">> >>
        ELSE <<>>)

\* _build_error_message, lines 156-160: the authentication suggestions.
LoginSuggestions ==
    << <<"Verify username and password are correct">>,
       <<"Check if SQL Server authentication is enabled (not just Windows auth)">>,
       <<"Ensure user has permission to access the database">> >>

\* _build_error_message, lines 162-166: the unknown-database suggestions.
DatabaseSuggestions ==
    << <<"Verify database name is correct">>,
       <<"Check if user has access to the specified database">>,
       <<"Try connecting without specifying database first">> >>

\* _build_error_message, lines 168-172: the TLS/certificate suggestions.
TlsSuggestions ==
    << <<"Try setting encrypt=no for local connections">>,
       <<"Set trust_server_certificate=yes for self-signed certificates">>,
       <<"Check SSL/TLS configuration on SQL Server">> >>

\* The suggestions of a chain of independent `if`s: those of every
\* category that matches.
SuggestionsOfEveryMatch(error, plat) ==
    LET error_msg == Lower(error)
    IN  (IF In("tcp provider", error_msg) /\ (In("10054", error_msg) \/ In("10061", error_msg))
         THEN NetworkSuggestions(plat) ELSE <<>>)
        \o (IF In("login failed", error_msg) THEN LoginSuggestions ELSE <<>>)
        \o (IF In("cannot open database", error_msg) THEN DatabaseSuggestions ELSE <<>>)
        \o (IF In("ssl", error_msg) \/ In("certificate", error_msg) THEN TlsSuggestions ELSE <<>>)

\* The suggestions _build_error_message selects: the first branch of the
\* if/elif chain that matches, or none.
Suggestions(error, plat) ==
    LET error_msg == Lower(error)
    IN  IF In("tcp provider", error_msg) /\ (In("10054", error_msg) \/ In("10061", error_msg))
        THEN NetworkSuggestions(plat)
        ELSE IF In("login failed", error_msg)
        THEN LoginSuggestions
        ELSE IF In("cannot open database", error_msg)
        THEN DatabaseSuggestions
        ELSE IF In("ssl", error_msg) \/ In("certificate", error_msg)
        THEN TlsSuggestions
        ELSE <<>>

\* _build_error_message(error)
_build_error_message(error, plat) ==
    LET suggestion_text == JoinBullets(Suggestions(error, plat))
        error_details   == <<"Failed to connect to SQL Server: ">> \o error
    IN  IF suggestion_text # <<>>
        THEN error_details \o <<"\n\nTroubleshooting suggestions:\n">> \o suggestion_text
        ELSE error_details

\* The message connect() builds when the patched retry fails too.
PatchFailedMessage(patch_error, e) ==
    <<"Connection failed even with OpenSSL patch: ">> \o patch_error
    \o <<"\n\nOriginal error: ">> \o e
    \o <<"\n\nThis suggests the issue may not be OpenSSL TLS compatibility.">>
    \o <<"\nPlease check SQL Server configuration and network connectivity.">>

(* ------------------------------------------------------------------ *)
(* The methods, as functions of the state they read (s), of the handle *)
(* the driver would hand out next (h) and of the outcomes of the calls *)
(* they make.  Each returns the fields it leaves behind, what it       *)
(* returns (ret) and what it raises (raised).                          *)
(* ------------------------------------------------------------------ *)

\* No open attempt made.
NoOutcome == [kind |-> "none", text |-> <<>>]

\* connect() without the test of line 248: every call opens.
AlwaysUnopened(conn) == TRUE

\* connect(), line 248: `if self._connection is None:`
IsUnopened(conn) == conn = None

\* connect() without the test of line 252: OPENSSL_CONF is never looked at.
NeverExternallyConfigured(env) == FALSE

\* connect(), line 252: `if os.environ.get('OPENSSL_CONF'):`
ExternallyConfigured(env) == Truthy(env)

\* connect(): a pyodbc.connect that returned the handle h, as the n-th attempt.
Connected(s, h, patch, env, fs, n, first, retry) ==
    [conn |-> h, patch |-> patch, env |-> env, files |-> fs,
     ret |-> h, raised |-> "none", msg |-> <<>>,
     attempts |-> n, first |-> first, retry |-> retry]

\* An exception leaving connect() with a handle stored all the same.
RaisedWithHandleStored(s, exc, msg, patch, env, fs, n, first, retry) ==
    [conn |-> "stale", patch |-> patch, env |-> env, files |-> fs,
     ret |-> None, raised |-> exc, msg |-> msg,
     attempts |-> n, first |-> first, retry |-> retry]

\* connect(): an exception leaving connect() after n attempts.
Raised(s, exc, msg, patch, env, fs, n, first, retry) ==
    [conn |-> s.conn, patch |-> patch, env |-> env, files |-> fs,
     ret |-> None, raised |-> exc, msg |-> msg,
     attempts |-> n, first |-> first, retry |-> retry]

\* connect(), lines 267-298: the handler of the first attempt's pyodbc.Error e.
ConnectAfterError(s, h, e, o2, writeOk, removeOk) ==
    IF s.auto /\ _is_macos_openssl_issue(e.text, s.plat)
    THEN LET a == _apply_openssl_legacy_patch(s.files, s.env, writeOk)
         IN  IF a.raised # "none"
             THEN Raised(s, a.raised, <<>>, s.patch, s.env, s.files, 1, e, NoOutcome)
             ELSE CASE o2.kind = "ok" ->
                         Connected(s, h, a.path, a.env, a.files, 2, e, o2)
                    [] o2.kind = "error" ->
                         LET c == _cleanup_openssl_patch(a.path, a.files, a.env, removeOk)
                         IN  Raised(s, "Exception", PatchFailedMessage(o2.text, e.text),
                                    c.patch, c.env, c.files, 2, e, o2)
                    [] OTHER ->
                         Raised(s, "other", <<>>, a.path, a.env, a.files, 2, e, o2)
    ELSE Raised(s, "Exception", _build_error_message(e.text, s.plat),
                s.patch, s.env, s.files, 1, e, NoOutcome)

\* connect()
connect(s, h, o1, o2, writeOk, removeOk) ==
    IF IsUnopened(s.conn)
    THEN IF ExternallyConfigured(s.env)
         THEN CASE o1.kind = "ok" ->
                     Connected(s, h, s.patch, s.env, s.files, 1, o1, NoOutcome)
                [] o1.kind = "error" ->
                     Raised(s, "Exception", _build_error_message(o1.text, s.plat),
                            s.patch, s.env, s.files, 1, o1, NoOutcome)
                [] OTHER ->
                     Raised(s, "other", <<>>, s.patch, s.env, s.files, 1, o1, NoOutcome)
         ELSE CASE o1.kind = "ok" ->
                     Connected(s, h, s.patch, s.env, s.files, 1, o1, NoOutcome)
                [] o1.kind = "error" ->
                     ConnectAfterError(s, h, o1, o2, writeOk, removeOk)
                [] OTHER ->
                     Raised(s, "other", <<>>, s.patch, s.env, s.files, 1, o1, NoOutcome)
    ELSE \* the function ends without a return statement
         [conn |-> s.conn, patch |-> s.patch, env |-> s.env, files |-> s.files,
          ret |-> None, raised |-> "none", msg |-> <<>>,
          attempts |-> 0, first |-> NoOutcome, retry |-> NoOutcome]

\* A close() whose cleanup does not look at what the manager tracks: it
\* removes the process's policy file and drops the override that names it.
close_cleaning_untracked_patch(s, co, removeOk) ==
    IF s.conn # None /\ co = "other"
    THEN [conn |-> None, patch |-> s.patch, env |-> s.env, files |-> s.files,
          raised |-> "other", closeArg |-> s.conn, cleanup |-> FALSE]
    ELSE LET c == _cleanup_openssl_patch(PatchPath, s.files, s.env, removeOk)
         IN  [conn |-> None, patch |-> c.patch, env |-> c.env, files |-> c.files,
              raised |-> "none", closeArg |-> s.conn, cleanup |-> TRUE]

\* close(): co is the outcome of self._connection.close(), when there is
\* a handle; closeArg is the handle close() was called on, cleanup tells
\* whether _cleanup_openssl_patch() was reached.
close(s, co, removeOk) ==
    IF s.conn # None /\ co = "other"
    THEN \* `finally` clears the handle, the exception leaves close()
         [conn |-> None, patch |-> s.patch, env |-> s.env, files |-> s.files,
          raised |-> "other", closeArg |-> s.conn, cleanup |-> FALSE]
    ELSE LET c == _cleanup_openssl_patch(s.patch, s.files, s.env, removeOk)
         IN  [conn |-> None, patch |-> c.patch, env |-> c.env, files |-> c.files,
              raised |-> "none", closeArg |-> s.conn, cleanup |-> TRUE]

\* __enter__()
__enter__(s, h, o1, o2, writeOk, removeOk) == connect(s, h, o1, o2, writeOk, removeOk)

\* An __exit__ that closes only when the block ended normally.
exit_closes_unless_exception(s, bodyRaised, co, removeOk) ==
    IF bodyRaised
    THEN [conn |-> s.conn, patch |-> s.patch, env |-> s.env, files |-> s.files,
          raised |-> "none", closeArg |-> None, cleanup |-> FALSE]
    ELSE close(s, co, removeOk)

\* __exit__(exc_type, exc_val, exc_tb): bodyRaised tells whether an
\* exception is leaving the block.
__exit__(s, bodyRaised, co, removeOk) == close(s, co, removeOk)

\* What the probe of is_connected() meets: nothing ("none"), or an
\* exception at cursor(), at execute() or at cursor.close().
ProbeOutcomes ==
    { [stage |-> "none", exc |-> "none"] }
    \cup { [stage |-> st, exc |-> e] : st \in {"cursor", "execute", "close"},
                                       e \in {"pyodbc.Error", "AttributeError", "other"} }

\* is_connected(): failedAt is the call of the probe that raised, if any.
is_connected(s, probe) ==
    IF s.conn = None
    THEN [ret |-> "False", raised |-> "none", failedAt |-> "none",
          cursorOpened |-> FALSE, cursorCloseCalled |-> FALSE]
    ELSE LET cursorOpened == probe.stage # "cursor"
             closeCalled  == probe.stage \in {"none", "close"}
         IN  IF probe.stage = "none"
             THEN [ret |-> "True", raised |-> "none", failedAt |-> "none",
                   cursorOpened |-> TRUE, cursorCloseCalled |-> TRUE]
             ELSE IF probe.exc \in {"pyodbc.Error", "AttributeError"}
             THEN [ret |-> "False", raised |-> "none", failedAt |-> probe.stage,
                   cursorOpened |-> cursorOpened, cursorCloseCalled |-> closeCalled]
             ELSE [ret |-> None, raised |-> "other", failedAt |-> probe.stage,
                   cursorOpened |-> cursorOpened, cursorCloseCalled |-> closeCalled]

(* ------------------------------------------------------------------ *)
(* Actions                                                             *)
(* ------------------------------------------------------------------ *)

\* What manager m's methods read.
StateOf(m) ==
    [conn |-> _connection[m], patch |-> _openssl_patch_file[m],
     env |-> OPENSSL_CONF, files |-> files,
     plat |-> platform, auto |-> auto_apply[m]]

\* What the call that is about to run finds.
Pre(m) ==
    [conn |-> _connection[m], patch |-> _openssl_patch_file[m],
     env |-> OPENSSL_CONF, exists |-> PatchPath \in files]

\* The record of a call, before the call fills it in.
Call(op, m) ==
    [op |-> op, m |-> m, pre |-> Pre(m),
     ret |-> None, raised |-> "none", msg |-> <<>>,
     attempts |-> 0, first |-> NoOutcome, retry |-> NoOutcome,
     closeArg |-> None, cleanup |-> FALSE, bodyRaised |-> FALSE,
     failedAt |-> "none", cursorOpened |-> FALSE, cursorCloseCalled |-> FALSE]

\* The handle the driver hands out next.
NextHandle == Handle(Cardinality(opened) + 1)

\* The state after a call of connect() or __enter__() that did r.
AfterConnect(m, op, r) ==
    /\ (r.conn # _connection[m] => Cardinality(opened) < MaxHandles)
    /\ _connection' = [_connection EXCEPT ![m] = r.conn]
    /\ _openssl_patch_file' = [_openssl_patch_file EXCEPT ![m] = r.patch]
    /\ OPENSSL_CONF' = r.env
    /\ files' = r.files
    /\ opened' = IF r.conn # _connection[m]
                 THEN opened \cup {[id |-> r.conn, owner |-> m]}
                 ELSE opened
    /\ last' = [Call(op, m) EXCEPT !.ret = r.ret, !.raised = r.raised, !.msg = r.msg,
                                   !.attempts = r.attempts, !.first = r.first,
                                   !.retry = r.retry]
    /\ UNCHANGED <<platform, auto_apply, closed>>

\* The state after a call of close() or __exit__() that did r.
AfterClose(m, op, bodyRaised, r) ==
    /\ _connection' = [_connection EXCEPT ![m] = r.conn]
    /\ _openssl_patch_file' = [_openssl_patch_file EXCEPT ![m] = r.patch]
    /\ OPENSSL_CONF' = r.env
    /\ files' = r.files
    /\ closed' = IF r.closeArg # None THEN closed \cup {r.closeArg} ELSE closed
    /\ last' = [Call(op, m) EXCEPT !.raised = r.raised, !.closeArg = r.closeArg,
                                   !.cleanup = r.cleanup, !.bodyRaised = bodyRaised]
    /\ UNCHANGED <<platform, auto_apply, opened>>

\* The outcomes one connect() call can meet: of the first attempt (o1),
\* of writing the policy file (writeOk), of the retry (o2) and of
\* os.remove in the cleanup (removeOk).  An outcome of a call that is not
\* made is left at one fixed value.
ConnectInputs ==
    { i \in [o1 : OpenOutcomes, o2 : OpenOutcomes \cup {NoOutcome},
             writeOk : BOOLEAN, removeOk : BOOLEAN] :
        /\ (i.o1.kind # "error" => i.writeOk)
        /\ (i.o2 # NoOutcome <=> (i.o1.kind = "error" /\ i.writeOk))
        /\ (i.o2.kind # "error" => i.removeOk) }

\* manager.connect()
Connect(m) ==
    \E i \in ConnectInputs :
        /\ AfterConnect(m, "connect", connect(StateOf(m), NextHandle, i.o1, i.o2, i.writeOk, i.removeOk))
        /\ UNCHANGED scopes

\* manager.close()
Close(m) ==
    \E co \in CloseOutcomes, removeOk \in BOOLEAN :
        /\ AfterClose(m, "close", FALSE, close(StateOf(m), co, removeOk))
        /\ UNCHANGED scopes

\* manager.is_connected()
IsConnected(m) ==
    \E probe \in ProbeOutcomes :
        LET r == is_connected(StateOf(m), probe)
        IN  /\ last' = [Call("is_connected", m) EXCEPT !.ret = r.ret, !.raised = r.raised,
                            !.failedAt = r.failedAt,
                            !.cursorOpened = r.cursorOpened,
                            !.cursorCloseCalled = r.cursorCloseCalled]
            /\ UNCHANGED <<platform, auto_apply, OPENSSL_CONF, files, _connection,
                           _openssl_patch_file, opened, closed, scopes>>

\* `with manager as handle:` is entered; the block is entered only when
\* __enter__ returns.
Enter(m) ==
    /\ scopes[m] < MaxScopeDepth
    /\ \E i \in ConnectInputs :
        LET r == __enter__(StateOf(m), NextHandle, i.o1, i.o2, i.writeOk, i.removeOk)
        IN  /\ AfterConnect(m, "enter", r)
            /\ scopes' = IF r.raised = "none"
                         THEN [scopes EXCEPT ![m] = @ + 1]
                         ELSE scopes

\* The block of a `with manager:` is left, normally or by an exception.
Exit(m) ==
    /\ scopes[m] > 0
    /\ \E bodyRaised \in BOOLEAN, co \in CloseOutcomes, removeOk \in BOOLEAN :
        /\ AfterClose(m, "exit", bodyRaised, __exit__(StateOf(m), bodyRaised, co, removeOk))
        /\ scopes' = [scopes EXCEPT ![m] = @ - 1]

\* Someone else (a temp-directory cleaner, another process) removes the
\* policy file.
ExtRemoveFile ==
    /\ PatchPath \in files
    /\ files' = files \ {PatchPath}
    /\ last' = [op |-> "ext_remove", m |-> None]
    /\ UNCHANGED <<platform, auto_apply, OPENSSL_CONF, _connection,
                   _openssl_patch_file, opened, closed, scopes>>

\* Other code of the process sets or unsets OPENSSL_CONF.
ExtSetEnv ==
    \E v \in {None, ExternalConf} :
        /\ OPENSSL_CONF # v
        /\ OPENSSL_CONF' = v
        /\ last' = [op |-> "ext_setenv", m |-> None]
        /\ UNCHANGED <<platform, auto_apply, files, _connection,
                       _openssl_patch_file, opened, closed, scopes>>

\* After construction (__init__, lines 25-27): no handle, no policy file;
\* the process may have been started with OPENSSL_CONF set.
Init ==
    /\ platform \in Platforms
    /\ auto_apply \in [Managers -> BOOLEAN]
    /\ OPENSSL_CONF \in {None, "", ExternalConf}
    /\ files = {}
    /\ _connection = [m \in Managers |-> None]
    /\ _openssl_patch_file = [m \in Managers |-> None]
    /\ opened = {}
    /\ closed = {}
    /\ scopes = [m \in Managers |-> 0]
    /\ last = [op |-> "init", m |-> None]

Next ==
    \/ \E m \in Managers : Connect(m)
    \/ \E m \in Managers : Close(m)
    \/ \E m \in Managers : IsConnected(m)
    \/ \E m \in Managers : Enter(m)
    \/ \E m \in Managers : Exit(m)
    \/ ExtRemoveFile
    \/ ExtSetEnv

Spec == Init /\ [][Next]_vars

(* ------------------------------------------------------------------ *)
(* Two managers in one process                                         *)
(* ------------------------------------------------------------------ *)

\* Two manager instances of one process: they share os.environ, the disk
\* and the process id, and so the path of the policy file.
TwoManagers == {"m1", "m2"}

\* After the construction of both.
InitTwo ==
    /\ platform \in Platforms
    /\ auto_apply = [m \in TwoManagers |-> TRUE]
    /\ OPENSSL_CONF \in {None, ExternalConf}
    /\ files = {}
    /\ _connection = [m \in TwoManagers |-> None]
    /\ _openssl_patch_file = [m \in TwoManagers |-> None]
    /\ opened = {}
    /\ closed = {}
    /\ scopes = [m \in TwoManagers |-> 0]
    /\ last = [op |-> "init", m |-> None]

\* The calls of the two managers, one at a time in any order, and the
\* outside world.
NextTwo ==
    \/ \E m \in TwoManagers : Connect(m)
    \/ \E m \in TwoManagers : Close(m)
    \/ \E m \in TwoManagers : IsConnected(m)
    \/ ExtRemoveFile
    \/ ExtSetEnv

SpecTwo == InitTwo /\ [][NextTwo]_vars

(* ------------------------------------------------------------------ *)
(* One failing connect(), over every short error text                  *)
(* ------------------------------------------------------------------ *)

\* The error texts have at most this many fragments.
MaxTextLen == 3

\* The fragments an error text is made of: the ones the code looks for,
\* as the driver spells them, and one it does not look for.
Fragments ==
    { "TCP Provider", "10054", "10061", "0x2746", "Login failed",
      "Cannot open database", "SSL", "Certificate", "Timeout expired" }

\* Every error text of 1..MaxTextLen fragments.
AnyErrorTexts == UNION { [1..k -> Fragments] : k \in 1..MaxTextLen }

\* The outcomes a connect() call whose first attempt fails with a driver
\* error can meet (see ConnectInputs).
FailingConnectInputs ==
    { i \in [o1 : { [kind |-> "error", text |-> t] : t \in AnyErrorTexts },
             o2 : OpenOutcomes \cup {NoOutcome},
             writeOk : BOOLEAN, removeOk : BOOLEAN] :
        /\ (i.o2 # NoOutcome <=> i.writeOk)
        /\ (i.o2.kind # "error" => i.removeOk) }

\* The first connect() of a manager, its first attempt failing with a
\* driver error.
ConnectFailing(m) ==
    /\ last.op = "init"
    /\ \E i \in FailingConnectInputs :
        /\ AfterConnect(m, "connect", connect(StateOf(m), NextHandle, i.o1, i.o2, i.writeOk, i.removeOk))
        /\ UNCHANGED scopes

NextFailing == \E m \in Managers : ConnectFailing(m)

SpecFailing == Init /\ [][NextFailing]_vars

(* ------------------------------------------------------------------ *)
(* Properties                                                          *)
(* ------------------------------------------------------------------ *)

\* The handles manager m opened whose close() has not been called.
Live(m) == { h \in opened : h.owner = m /\ h.id \notin closed }

\* The last call was one of ops, made on a manager.
Did(ops) == last.op \in ops

\* The legacy-TLS signature of an error text, on this platform.
LegacyTlsSignature(text) ==
    /\ platform = "darwin"
    /\ In("tcp provider", Lower(text))
    /\ (In("10054", Lower(text)) \/ In("0x2746", Lower(text)))

\* Manager m is Open on a patched connection: it tracks the policy file,
\* the file exists and OPENSSL_CONF points to it.
PatchInForce(m) ==
    /\ _openssl_patch_file[m] = PatchPath
    /\ PatchPath \in files
    /\ OPENSSL_CONF = PatchPath

\* C1: connect() on an Open manager returns the handle the manager holds
\* (the one its first connect() returned), keeps it, and makes no driver
\* open attempt.
C1_ConnectOnOpenReturnsCachedHandle ==
    (Did({"connect"}) /\ last.pre.conn # None) =>
        /\ last.ret = last.pre.conn
        /\ _connection[last.m] = last.pre.conn
        /\ last.attempts = 0

\* C2: close() on an Open manager clears the handle reference and, when a
\* policy file is tracked, reaches the cleanup, whatever the handle's own
\* close() did (returned, raised a driver error, raised anything else).
C2_CloseAlwaysClearsAndCleansUp ==
    (Did({"close"}) /\ last.pre.conn # None) =>
        /\ _connection[last.m] = None
        /\ (last.pre.patch # None => last.cleanup)

\* C3: after a close() that returns normally on a manager that tracks a
\* policy file it created, the file is gone, OPENSSL_CONF no longer
\* points to it and the manager no longer tracks it.
C3_CloseRemovesPolicyFile ==
    (Did({"close"}) /\ last.raised = "none" /\ last.pre.patch # None) =>
        /\ PatchPath \notin files
        /\ OPENSSL_CONF # PatchPath
        /\ _openssl_patch_file[last.m] = None

C5_EnterYieldsLiveHandle ==
    (Did({"enter"}) /\ last.raised = "none") =>
        /\ last.ret # None
        /\ last.ret = _connection[last.m]
        /\ last.ret \notin closed
        /\ (last.pre.conn # None => last.ret = last.pre.conn)

\* C6: leaving a scope, normally or by an exception of the body, calls
\* close(): the handle the manager held has had its close() called and
\* the manager holds no handle afterwards.
C6_ExitAlwaysCloses ==
    Did({"exit"}) =>
        /\ _connection[last.m] = None
        /\ (last.pre.conn # None =>
                /\ last.closeArg = last.pre.conn
                /\ last.pre.conn \in closed)

\* C6, witness: a scope left by an exception while the manager was Open.
C6_Witness ==
    /\ Did({"exit"})
    /\ last.bodyRaised
    /\ last.pre.conn # None

\* C7 as stated: a connect() call makes at most two attempts, two only
\* when OPENSSL_CONF was not set at entry, the first attempt failed with
\* a driver error bearing the legacy-TLS signature and the platform is
\* darwin, and exactly one in every other case.
C7_Original ==
    Did({"connect", "enter"}) =>
        LET retryCase == /\ ~Truthy(last.pre.env)
                         /\ last.first.kind = "error"
                         /\ LegacyTlsSignature(last.first.text)
        IN  /\ last.attempts <= 2
            /\ (last.attempts = 2 => retryCase)
            /\ (~retryCase => last.attempts = 1)

\* C7, amended: a connect() call on a manager that holds no handle makes
\* one or two attempts, two only in the case above; a connect() call on
\* an Open manager makes none.
C7_AttemptsPerConnect ==
    Did({"connect", "enter"}) =>
        LET retryCase == /\ ~Truthy(last.pre.env)
                         /\ last.first.kind = "error"
                         /\ LegacyTlsSignature(last.first.text)
        IN  IF last.pre.conn = None
            THEN /\ last.attempts \in {1, 2}
                 /\ (last.attempts = 2 => retryCase)
                 /\ (~retryCase => last.attempts = 1)
            ELSE last.attempts = 0

\* C7, witness: a connect() that made the second attempt.
C7_Witness ==
    /\ Did({"connect"})
    /\ last.pre.conn = None
    /\ last.attempts = 2

\* C8: with OPENSSL_CONF set and non-empty at entry, connect() on an
\* Unopened manager makes exactly one attempt, creates no policy file,
\* leaves OPENSSL_CONF alone, and on a driver error raises the message of
\* _build_error_message, legacy-TLS signature or not.
C8_ExternalOverrideRespected ==
    (Did({"connect"}) /\ last.pre.conn = None /\ Truthy(last.pre.env)) =>
        /\ last.attempts = 1
        /\ (PatchPath \in files) = last.pre.exists
        /\ _openssl_patch_file[last.m] = last.pre.patch
        /\ OPENSSL_CONF = last.pre.env
        /\ (last.first.kind = "error" =>
                /\ last.raised = "Exception"
                /\ last.msg = _build_error_message(last.first.text, platform))

\* C8, witness: such a connect() failing with the legacy-TLS signature on
\* darwin with the auto-patch enabled, the operator's value in force.
C8_Witness ==
    /\ Did({"connect"})
    /\ last.pre.conn = None
    /\ last.pre.env = ExternalConf
    /\ last.first.kind = "error"
    /\ LegacyTlsSignature(last.first.text)
    /\ auto_apply[last.m]

\* C9: when the patched retry fails with a driver error too, connect()
\* removes the policy file, unsets the override, stops tracking the file,
\* leaves the manager without a handle and raises a message holding the
\* retry's text and the first attempt's text.
C9_FailedRetryCleansUp ==
    (Did({"connect"}) /\ last.attempts = 2 /\ last.retry.kind = "error") =>
        /\ PatchPath \notin files
        /\ OPENSSL_CONF # PatchPath
        /\ _openssl_patch_file[last.m] = None
        /\ _connection[last.m] = None
        /\ last.raised = "Exception"
        /\ Contains(last.msg, last.retry.text)
        /\ Contains(last.msg, last.first.text)

\* C10: a patched retry that succeeds leaves the manager Open with the
\* policy file tracked, on disk and named by OPENSSL_CONF; and no call on
\* that manager other than close() (or __exit__, which is close()) takes
\* any of the three away while it stays Open.
C10_PatchKeptWhileOpen ==
    [][ \A m \in Managers :
          /\ (/\ last'.op \in {"connect", "enter"}
              /\ last'.m = m
              /\ last'.attempts = 2
              /\ last'.raised = "none")
             => (_connection'[m] # None /\ PatchInForce(m)')
          /\ (/\ _connection[m] # None
              /\ PatchInForce(m)
              /\ last'.op \in {"connect", "enter", "is_connected"}
              /\ last'.m = m)
             => (_connection'[m] # None /\ PatchInForce(m)') ]_vars

\* C10, witness: a connect() on a manager that is Open on a patched
\* connection, leaving the patch in force.
C10_Witness ==
    /\ Did({"connect"})
    /\ last.pre.conn # None
    /\ last.pre.patch = PatchPath
    /\ _connection[last.m] # None
    /\ PatchInForce(last.m)

ClaimedCategory(text) ==
    LET t == Lower(text)
    IN  CASE In("tcp provider", t) /\ (In("10054", t) \/ In("10061", t)) -> "network"
          [] In("login failed", t) -> "authentication"
          [] In("cannot open database", t) -> "database"
          [] In("ssl", t) \/ In("certificate", t) -> "tls"
          [] OTHER -> "none"

\* The hints of each category, by the fragment each begins with.
HintsOf(category) ==
    LET first(list) == { list[i][1] : i \in DOMAIN list }
    IN  CASE category = "network" -> first(NetworkSuggestions(platform))
          [] category = "authentication" -> first(LoginSuggestions)
          [] category = "database" -> first(DatabaseSuggestions)
          [] category = "tls" -> first(TlsSuggestions)
          [] OTHER -> {}

\* Every hint of any category, on any platform.
AllHints ==
    UNION { { list[i][1] : i \in DOMAIN list } :
            list \in {NetworkSuggestions("darwin"), LoginSuggestions,
                      DatabaseSuggestions, TlsSuggestions} }

\* C12: the message raised for a driver error that does not take the
\* retry path holds the driver's text verbatim and exactly the hints of
\* the first matching category; for a text of no category it holds no
\* hint and no troubleshooting section.
C12_MessageOfFirstMatchingCategory ==
    (Did({"connect"}) /\ last.first.kind = "error" /\ last.attempts = 1
                      /\ last.raised = "Exception") =>
        LET category == ClaimedCategory(last.first.text)
        IN  /\ Contains(last.msg, <<"Failed to connect to SQL Server: ">> \o last.first.text)
            /\ \A hint \in AllHints : In(hint, last.msg) <=> hint \in HintsOf(category)
            /\ In("\n\nTroubleshooting suggestions:\n", last.msg) <=> category # "none"

\* C12, witness: a text of two categories, answered with the hints of
\* the first.
C12_Witness ==
    /\ Did({"connect"})
    /\ last.first.kind = "error"
    /\ last.attempts = 1
    /\ last.raised = "Exception"
    /\ ClaimedCategory(last.first.text) = "authentication"
    /\ In("ssl", Lower(last.first.text))
    /\ In("Verify username and password are correct", last.msg)

\* C13: is_connected() never raises, returns False when the manager holds
\* no handle, and otherwise returns True exactly when no call of the
\* probe (cursor(), execute(), cursor.close()) failed.
C13_IsConnectedNeverRaises ==
    Did({"is_connected"}) =>
        /\ last.raised = "none"
        /\ (last.pre.conn = None => last.ret = "False")
        /\ (last.pre.conn # None => (last.ret = "True" <=> last.failedAt = "none"))

\* C14: close() on a manager that was never opened (it holds no handle
\* and tracks no policy file, as every manager does on which connect() was
\* never called) does not raise and changes nothing: the handle stays
\* absent, no driver handle is closed, the policy file stays on disk if
\* it was there and OPENSSL_CONF keeps its value.
C14_CloseOnNeverOpenedIsNoOp ==
    (Did({"close"}) /\ last.pre.conn = None /\ last.pre.patch = None) =>
        /\ last.raised = "none"
        /\ last.closeArg = None
        /\ _connection[last.m] = None
        /\ _openssl_patch_file[last.m] = None
        /\ (PatchPath \in files) = last.pre.exists
        /\ OPENSSL_CONF = last.pre.env

\* C14, witness: a manager that never opened a handle is closed while the
\* other manager's policy file is on disk and named by OPENSSL_CONF.
C14_Witness ==
    /\ Did({"close"})
    /\ last.pre.conn = None /\ last.pre.patch = None
    /\ { h \in opened : h.owner = last.m } = {}
    /\ last.pre.exists
    /\ last.pre.env = PatchPath
    /\ \E o \in TwoManagers : o # last.m /\ _openssl_patch_file[o] = PatchPath

(* ------------------------------------------------------------------ *)
(* SQLServerConfig (src/config/sqlserver_config.py)                    *)
(*                                                                     *)
(* host, database, user, password and driver are texts (sequences of   *)
(* fragments, <<>> the empty string), the three flags are one fragment *)
(* each, port is an integer, extra is the sequence of the dictionary's *)
(* (key, value) items in insertion order (<<>> for None and for {}).   *)
(* ------------------------------------------------------------------ *)

\* The extra dictionaries hold at most this many items.
MaxExtra == 2

\* port: int = 1433
DefaultPort == 1433

\* The largest port __post_init__ accepts.
MaxPort == 65535

\* driver: str = "ODBC Driver 18 for SQL Server"
DefaultDriver == <<"ODBC Driver 18 for ", "SQL Server">>

\* encrypt: str = "no"
DefaultEncrypt == "no"

\* trust_server_certificate: str = "yes"
DefaultTrust == "yes"

\* mars: str = "no"
DefaultMars == "no"

\* A __post_init__ that trims the four texts before testing them, as
\* validate() does.
post_init_trimming(a) ==
    IF \A i \in DOMAIN a.host : a.host[i] = " "
    THEN [raised |-> "ValueError", msg |-> <<"Host cannot be empty">>]
    ELSE IF \A i \in DOMAIN a.database : a.database[i] = " "
    THEN [raised |-> "ValueError", msg |-> <<"Database cannot be empty">>]
    ELSE IF \A i \in DOMAIN a.user : a.user[i] = " "
    THEN [raised |-> "ValueError", msg |-> <<"User cannot be empty">>]
    ELSE IF \A i \in DOMAIN a.password : a.password[i] = " "
    THEN [raised |-> "ValueError", msg |-> <<"Password cannot be empty">>]
    ELSE IF a.port <= 0 \/ a.port > 65535
    THEN [raised |-> "ValueError", msg |-> <<"Invalid port number: ", ToString(a.port)>>]
    ELSE IF a.encrypt \notin {"yes", "no"}
    THEN [raised |-> "ValueError", msg |-> <<"Encrypt must be 'yes' or 'no'">>]
    ELSE IF a.trust_server_certificate \notin {"yes", "no"}
    THEN [raised |-> "ValueError", msg |-> <<"TrustServerCertificate must be 'yes' or 'no'">>]
    ELSE IF a.mars \notin {"yes", "no"}
    THEN [raised |-> "ValueError", msg |-> <<"MARS_Connection must be 'yes' or 'no'">>]
    ELSE [raised |-> "none", msg |-> <<>>]

\* A __post_init__ that accepts the flags in any letter case, as
\* validate() does.
post_init_ignoring_case(a) ==
    IF a.host = <<>> THEN [raised |-> "ValueError", msg |-> <<"Host cannot be empty">>]
    ELSE IF a.database = <<>> THEN [raised |-> "ValueError", msg |-> <<"Database cannot be empty">>]
    ELSE IF a.user = <<>> THEN [raised |-> "ValueError", msg |-> <<"User cannot be empty">>]
    ELSE IF a.password = <<>> THEN [raised |-> "ValueError", msg |-> <<"Password cannot be empty">>]
    ELSE IF a.port <= 0 \/ a.port > MaxPort
    THEN [raised |-> "ValueError", msg |-> <<"Invalid port number: ", ToString(a.port)>>]
    ELSE IF lower(a.encrypt) \notin {"yes", "no"}
    THEN [raised |-> "ValueError", msg |-> <<"Encrypt must be 'yes' or 'no'">>]
    ELSE IF lower(a.trust_server_certificate) \notin {"yes", "no"}
    THEN [raised |-> "ValueError", msg |-> <<"TrustServerCertificate must be 'yes' or 'no'">>]
    ELSE IF lower(a.mars) \notin {"yes", "no"}
    THEN [raised |-> "ValueError", msg |-> <<"MARS_Connection must be 'yes' or 'no'">>]
    ELSE [raised |-> "none", msg |-> <<>>]

\* __post_init__() on the fields the generated __init__ has just stored
\* (a): the first failing check raises.
__post_init__(a) ==
    IF a.host = <<>> THEN [raised |-> "ValueError", msg |-> <<"Host cannot be empty">>]
    ELSE IF a.database = <<>> THEN [raised |-> "ValueError", msg |-> <<"Database cannot be empty">>]
    ELSE IF a.user = <<>> THEN [raised |-> "ValueError", msg |-> <<"User cannot be empty">>]
    ELSE IF a.password = <<>> THEN [raised |-> "ValueError", msg |-> <<"Password cannot be empty">>]
    ELSE IF a.port <= 0 \/ a.port > MaxPort
    THEN [raised |-> "ValueError", msg |-> <<"Invalid port number: ", ToString(a.port)>>]
    ELSE IF a.encrypt \notin {"yes", "no"}
    THEN [raised |-> "ValueError", msg |-> <<"Encrypt must be 'yes' or 'no'">>]
    ELSE IF a.trust_server_certificate \notin {"yes", "no"}
    THEN [raised |-> "ValueError", msg |-> <<"TrustServerCertificate must be 'yes' or 'no'">>]
    ELSE IF a.mars \notin {"yes", "no"}
    THEN [raised |-> "ValueError", msg |-> <<"MARS_Connection must be 'yes' or 'no'">>]
    ELSE [raised |-> "none", msg |-> <<>>]

\* SQLServerConfig(host, database, user, password, port, driver, encrypt,
\* trust_server_certificate, mars, extra): the dataclass stores the
\* arguments, then __post_init__ validates them.
SQLServerConfig(a) ==
    LET v == __post_init__(a)
    IN  [raised |-> v.raised, msg |-> v.msg,
         config |-> IF v.raised = "none" THEN a ELSE None]

\* sep.join(items), for texts.
RECURSIVE Join(_, _)
Join(items, sep) ==
    IF items = <<>> THEN <<>>
    ELSE IF Len(items) = 1 THEN Head(items)
    ELSE Head(items) \o <<sep>> \o Join(Tail(items), sep)

\* The characters int() reads as decimal digits, and their values.
Digits == {"0", "1", "2", "3", "4", "5", "6", "7", "8", "9"}

\* The value of one decimal digit.
DigitValue(d) == CHOOSE n \in 0..9 : ToString(n) = d

\* The value of a run of decimal digits.
RECURSIVE DigitsValue(_)
DigitsValue(chars) ==
    IF chars = <<>> THEN 0
    ELSE 10 * DigitsValue(SubSeq(chars, 1, Len(chars) - 1)) + DigitValue(chars[Len(chars)])

\* str.strip(): the text without its leading and trailing blanks.
RECURSIVE Strip(_)
Strip(chars) ==
    IF chars = <<>> THEN <<>>
    ELSE IF Head(chars) = " " THEN Strip(Tail(chars))
    ELSE IF chars[Len(chars)] = " " THEN Strip(SubSeq(chars, 1, Len(chars) - 1))
    ELSE chars

\* int(text), for a text given character by character: blanks around the
\* number are skipped, one sign is allowed, then only decimal digits;
\* anything else raises ValueError.
int(chars) ==
    LET body   == Strip(chars)
        signed == body # <<>> /\ Head(body) \in {"+", "-"}
        digits == IF signed THEN Tail(body) ELSE body
    IN  IF digits # <<>> /\ \A i \in DOMAIN digits : digits[i] \in Digits
        THEN [raised |-> "none",
              value  |-> IF signed /\ Head(body) = "-"
                         THEN 0 - DigitsValue(digits) ELSE DigitsValue(digits)]
        ELSE [raised |-> "ValueError", value |-> 0]

\* An environment variable that is not set.
Unset(empty) == [set |-> FALSE, value |-> empty]

\* An environment variable set to v.
SetTo(v) == [set |-> TRUE, value |-> v]

\* os.getenv(name, default), for the variable var
getenv(var, default) == IF var.set THEN var.value ELSE default

\* `not os.getenv(name)`: the variable is unset or set to the empty string.
NotGiven(var) == ~var.set \/ var.value = <<>>

\* A check of the required variables that stops at the first one that is
\* not given.
first_missing_var(env) ==
    IF NotGiven(env.SQLSERVER_HOST) THEN << <<"SQLSERVER_HOST">> >>
    ELSE IF NotGiven(env.SQLSERVER_DATABASE) THEN << <<"SQLSERVER_DATABASE">> >>
    ELSE IF NotGiven(env.SQLSERVER_USER) THEN << <<"SQLSERVER_USER">> >>
    ELSE IF NotGiven(env.SQLSERVER_PASSWORD) THEN << <<"SQLSERVER_PASSWORD">> >>
    ELSE <<>>

\* The names of the required variables that are not given, in the order
\* the checks are made.
missing_vars(env) ==
    (IF NotGiven(env.SQLSERVER_HOST) THEN << <<"SQLSERVER_HOST">> >> ELSE <<>>)
    \o (IF NotGiven(env.SQLSERVER_DATABASE) THEN << <<"SQLSERVER_DATABASE">> >> ELSE <<>>)
    \o (IF NotGiven(env.SQLSERVER_USER) THEN << <<"SQLSERVER_USER">> >> ELSE <<>>)
    \o (IF NotGiven(env.SQLSERVER_PASSWORD) THEN << <<"SQLSERVER_PASSWORD">> >> ELSE <<>>)

\* A from_environment that takes the default for an optional variable
\* that is set to the empty string too.
from_environment_defaulting_empty(env) ==
    IF missing_vars(env) # <<>>
    THEN [raised |-> "ValueError",
          msg |-> <<"Missing required environment variables: ">> \o Join(missing_vars(env), ", "),
          config |-> None]
    ELSE LET port == IF env.SQLSERVER_PORT.value = <<>>
                     THEN int(<<"1", "4", "3", "3">>) ELSE int(env.SQLSERVER_PORT.value)
         IN  IF port.raised # "none"
             THEN [raised |-> "ValueError", msg |-> <<"invalid literal for int()">>, config |-> None]
             ELSE SQLServerConfig(
                    [host |-> env.SQLSERVER_HOST.value,
                     port |-> port.value,
                     database |-> env.SQLSERVER_DATABASE.value,
                     user |-> env.SQLSERVER_USER.value,
                     password |-> env.SQLSERVER_PASSWORD.value,
                     driver |-> IF env.SQLSERVER_DRIVER.value = <<>>
                                THEN DefaultDriver ELSE env.SQLSERVER_DRIVER.value,
                     encrypt |-> IF env.SQLSERVER_ENCRYPT.value = ""
                                 THEN DefaultEncrypt ELSE env.SQLSERVER_ENCRYPT.value,
                     trust_server_certificate |->
                         IF env.SQLSERVER_TRUST_CERT.value = ""
                         THEN DefaultTrust ELSE env.SQLSERVER_TRUST_CERT.value,
                     mars |-> DefaultMars,
                     extra |-> <<>>])

\* SQLServerConfig.from_environment(): env is os.environ.
from_environment(env) ==
    IF missing_vars(env) # <<>>
    THEN [raised |-> "ValueError",
          msg |-> <<"Missing required environment variables: ">> \o Join(missing_vars(env), ", "),
          config |-> None]
    ELSE LET port == int(getenv(env.SQLSERVER_PORT, <<"1", "4", "3", "3">>))
         IN  IF port.raised # "none"
             THEN [raised |-> "ValueError", msg |-> <<"invalid literal for int()">>, config |-> None]
             ELSE SQLServerConfig(
                    [host |-> env.SQLSERVER_HOST.value,
                     port |-> port.value,
                     database |-> env.SQLSERVER_DATABASE.value,
                     user |-> env.SQLSERVER_USER.value,
                     password |-> env.SQLSERVER_PASSWORD.value,
                     driver |-> getenv(env.SQLSERVER_DRIVER, DefaultDriver),
                     encrypt |-> getenv(env.SQLSERVER_ENCRYPT, DefaultEncrypt),
                     trust_server_certificate |-> getenv(env.SQLSERVER_TRUST_CERT, DefaultTrust),
                     mars |-> DefaultMars,
                     extra |-> <<>>])

(* ------------------------------------------------------------------ *)
(* The connection string                                               *)
(* (SQLServerConnection._detect_odbc_drivers, _build_connection_string)*)
(* ------------------------------------------------------------------ *)

\* pyodbc.drivers() returns at most this many names.
MaxDrivers == 2

\* preferred_drivers
preferred_drivers ==
    << <<"ODBC Driver 18 for ", "SQL Server">>,
       <<"ODBC Driver 17 for ", "SQL Server">>,
       <<"SQL Server", " Native Client 11.0">>,
       <<"SQL Server">> >>

\* The driver names an ODBC installation can list: the preferred ones, an
\* older driver of the vendor, and a driver of another vendor.
DriverNames ==
    { preferred_drivers[i] : i \in DOMAIN preferred_drivers }
    \cup { <<"ODBC Driver 13 for ", "SQL Server">>, <<"FreeTDS">> }

\* x in list
Among(x, list) == \E i \in DOMAIN list : list[i] = x

\* A _detect_odbc_drivers that returns the installed SQL Server drivers in
\* the order pyodbc lists them.
detect_drivers_in_installed_order(drivers) ==
    IF drivers.raised THEN <<>>
    ELSE LET IsSqlServer(d) == In("SQL Server", d)
         IN  SelectSeq(drivers.all, IsSqlServer)

\* _detect_odbc_drivers(): drivers is what pyodbc.drivers() does, raising
\* or returning the list drivers.all.
_detect_odbc_drivers(drivers) ==
    IF drivers.raised THEN <<>>
    ELSE LET IsInstalled(d) == Among(d, drivers.all)
             sql_drivers    == SelectSeq(preferred_drivers, IsInstalled)
             IsOther(d)     == In("SQL Server", d) /\ ~Among(d, sql_drivers)
         IN  sql_drivers \o SelectSeq(drivers.all, IsOther)

\* _build_connection_string, lines 188-193: the driver to name.
SelectDriver(config, drivers) ==
    LET available_drivers == _detect_odbc_drivers(drivers)
    IN  IF Among(config.driver, available_drivers) THEN config.driver
        ELSE IF available_drivers # <<>> THEN available_drivers[1]
        ELSE config.driver

\* f"{key}={value}" for every item of config.extra, in the dictionary's order.
ExtraParts(extra) == [i \in DOMAIN extra |-> extra[i][1] \o <<"=">> \o extra[i][2]]

\* Encryption parts that carry the configured trust flag in every case.
EncryptionPartsWithConfiguredTrust(config) ==
    IF lower(config.encrypt) = "no"
    THEN << <<"Encrypt", "=", "no">>,
            <<"TrustServerCertificate", "=", config.trust_server_certificate>> >>
    ELSE << <<"Encrypt", "=", config.encrypt>>,
            <<"TrustServerCertificate", "=", config.trust_server_certificate>> >>

\* _build_connection_string, lines 204-215: the encryption settings.
EncryptionParts(config) ==
    IF lower(config.encrypt) = "no"
    THEN << <<"Encrypt", "=", "no">>,
            <<"TrustServerCertificate", "=", "yes">> >>
    ELSE << <<"Encrypt", "=", config.encrypt>>,
            <<"TrustServerCertificate", "=", config.trust_server_certificate>> >>

\* _build_connection_string, lines 217-219: MARS, if enabled.
MarsParts(config) ==
    IF lower(config.mars) = "yes"
    THEN << <<"MARS_Connection", "=", config.mars>> >> ELSE <<>>

\* Timeout parts with the login timeout first.
TimeoutPartsLoginFirst ==
    << <<"Login Timeout", "=", "30">>,
       <<"Connection Timeout", "=", "30">> >>

\* _build_connection_string, lines 221-225: the timeouts.
TimeoutParts ==
    << <<"Connection Timeout", "=", "30">>,
       <<"Login Timeout", "=", "30">> >>

\* _build_connection_string, lines 227-229: the port, if not the default.
PortParts(config) ==
    IF config.port # DefaultPort
    THEN << <<"Port", "=", ToString(config.port)>> >> ELSE <<>>

\* _build_connection_string(): the parts, joined with ";".
_build_connection_string(config, drivers) ==
    LET driver == SelectDriver(config, drivers)
        parts ==
            << <<"DRIVER", "=", "{">> \o driver \o <<"}">>,
               <<"SERVER", "=">> \o config.host,
               <<"DATABASE", "=">> \o config.database,
               <<"UID", "=">> \o config.user,
               <<"PWD", "=">> \o config.password >>
            \o EncryptionParts(config)
            \o MarsParts(config)
            \o TimeoutParts
            \o PortParts(config)
            \o ExtraParts(config.extra)
    IN  Join(parts, ";")

(* ------------------------------------------------------------------ *)
(* Configurations and connection strings: a configuration is built     *)
(* from explicit arguments or from the environment, then a manager     *)
(* builds its connection string.  `last` records each call.            *)
(* ------------------------------------------------------------------ *)

\* The items an extra dictionary is made of.
ExtraItems ==
    { << <<"APP">>, <<"exporter">> >>,
      << <<"Port">>, <<"1444">> >>,
      << <<"UID">>, <<"sa">> >> }

\* The extra dictionaries: keys are unique, insertion order is kept.
Extras ==
    { e \in UNION { [1..k -> ExtraItems] : k \in 0..MaxExtra } :
        \A i, j \in DOMAIN e : i # j => e[i][1] # e[j][1] }

\* The arguments the constructor is called with.
ConfigArgs ==
    [ host : {<<>>, <<"db1">>},
      database : {<<>>, <<"x">>},
      user : {<<>>, <<"u">>},
      password : {<<>>, <<"p">>},
      port : {0, 1, DefaultPort, DefaultPort + 1, MaxPort, MaxPort + 1},
      driver : {DefaultDriver, <<"ODBC Driver 17 for ", "SQL Server">>, <<"FreeTDS">>},
      encrypt : {"yes", "no", "No"},
      trust_server_certificate : {"yes", "no", "YES"},
      mars : {"yes", "no", "Yes"},
      extra : Extras ]

\* The values of the variables from_environment reads in os.environ.
Environments ==
    [ SQLSERVER_HOST : {Unset(<<>>), SetTo(<<>>), SetTo(<<"db1">>)},
      SQLSERVER_DATABASE : {Unset(<<>>), SetTo(<<>>), SetTo(<<"x">>)},
      SQLSERVER_USER : {Unset(<<>>), SetTo(<<>>), SetTo(<<"u">>)},
      SQLSERVER_PASSWORD : {Unset(<<>>), SetTo(<<>>), SetTo(<<"p">>)},
      SQLSERVER_PORT : {Unset(<<>>), SetTo(<<>>), SetTo(<<"1", "4", "3", "3">>),
                        SetTo(<<"1", "4", "4", "4">>), SetTo(<<" ", "8", "0">>),
                        SetTo(<<"0">>), SetTo(<<"a", "b", "c">>)},
      SQLSERVER_DRIVER : {Unset(<<>>), SetTo(<<"FreeTDS">>)},
      SQLSERVER_ENCRYPT : {Unset(""), SetTo("yes"), SetTo("true")},
      SQLSERVER_TRUST_CERT : {Unset(""), SetTo("no"), SetTo("")} ]

\* What pyodbc.drivers() does: raises, or returns a list of distinct names.
InstalledDrivers ==
    { [raised |-> TRUE, all |-> <<>>] }
    \cup { [raised |-> FALSE, all |-> d] :
            d \in { l \in UNION { [1..k -> DriverNames] : k \in 0..MaxDrivers } :
                      \A i, j \in DOMAIN l : i # j => l[i] # l[j] } }

\* SQLServerConfig(**a)
Construct ==
    /\ last.op = "init"
    /\ \E a \in ConfigArgs :
        LET r == SQLServerConfig(a)
        IN  last' = [op |-> "SQLServerConfig", m |-> None, args |-> a,
                     raised |-> r.raised, msg |-> r.msg, config |-> r.config]
    /\ UNCHANGED <<platform, auto_apply, OPENSSL_CONF, files, _connection,
                   _openssl_patch_file, opened, closed, scopes>>

\* SQLServerConfig.from_environment()
FromEnvironment ==
    /\ last.op = "init"
    /\ \E env \in Environments :
        LET r == from_environment(env)
        IN  last' = [op |-> "from_environment", m |-> None, env |-> env,
                     raised |-> r.raised, msg |-> r.msg, config |-> r.config]
    /\ UNCHANGED <<platform, auto_apply, OPENSSL_CONF, files, _connection,
                   _openssl_patch_file, opened, closed, scopes>>

\* SQLServerConnection(config)._build_connection_string(), for the
\* configuration that was just made.
BuildConnectionString(m) ==
    /\ last.op \in {"SQLServerConfig", "from_environment"}
    /\ last.raised = "none"
    /\ \E d \in InstalledDrivers :
        last' = [op |-> "_build_connection_string", m |-> m,
                 config |-> last.config, drivers |-> d,
                 driver |-> SelectDriver(last.config, d),
                 ret |-> _build_connection_string(last.config, d)]
    /\ UNCHANGED <<platform, auto_apply, OPENSSL_CONF, files, _connection,
                   _openssl_patch_file, opened, closed, scopes>>

\* A validate() that tests the four texts as __post_init__ does, without
\* trimming them.
validate_without_trimming(f) ==
    (IF f.host = <<>> THEN << <<"Host cannot be empty">> >> ELSE <<>>)
    \o (IF f.database = <<>> THEN << <<"Database name cannot be empty">> >> ELSE <<>>)
    \o (IF f.user = <<>> THEN << <<"Username cannot be empty">> >> ELSE <<>>)
    \o (IF f.password = <<>> THEN << <<"Password cannot be empty">> >> ELSE <<>>)
    \o (IF f.port <= 0 \/ f.port > MaxPort
        THEN << <<"Invalid port number: ", ToString(f.port)>> >> ELSE <<>>)
    \o (IF lower(f.encrypt) \notin {"yes", "no"}
        THEN << <<"Encrypt must be 'yes' or 'no'">> >> ELSE <<>>)
    \o (IF lower(f.trust_server_certificate) \notin {"yes", "no"}
        THEN << <<"TrustServerCertificate must be 'yes' or 'no'">> >> ELSE <<>>)
    \o (IF lower(f.mars) \notin {"yes", "no"}
        THEN << <<"MARS_Connection must be 'yes' or 'no'">> >> ELSE <<>>)

\* validate(): the issues of the fields f of a configuration object, in
\* the order of the checks.
validate(f) ==
    (IF Strip(f.host) = <<>> THEN << <<"Host cannot be empty">> >> ELSE <<>>)
    \o (IF Strip(f.database) = <<>> THEN << <<"Database name cannot be empty">> >> ELSE <<>>)
    \o (IF Strip(f.user) = <<>> THEN << <<"Username cannot be empty">> >> ELSE <<>>)
    \o (IF Strip(f.password) = <<>> THEN << <<"Password cannot be empty">> >> ELSE <<>>)
    \o (IF f.port <= 0 \/ f.port > MaxPort
        THEN << <<"Invalid port number: ", ToString(f.port)>> >> ELSE <<>>)
    \o (IF lower(f.encrypt) \notin {"yes", "no"}
        THEN << <<"Encrypt must be 'yes' or 'no'">> >> ELSE <<>>)
    \o (IF lower(f.trust_server_certificate) \notin {"yes", "no"}
        THEN << <<"TrustServerCertificate must be 'yes' or 'no'">> >> ELSE <<>>)
    \o (IF lower(f.mars) \notin {"yes", "no"}
        THEN << <<"MARS_Connection must be 'yes' or 'no'">> >> ELSE <<>>)

\* The field values a configuration object can hold when validate() is
\* called, as constructed or as assigned to since (the dataclass is not
\* frozen): empty, blank and padded texts, ports around both limits, flags
\* in lower case, in another case and with another word.
FieldValues ==
    [ host : {<<>>, <<" ">>, <<"db1">>, <<" ", "db1", " ">>},
      database : {<<>>, <<"x">>},
      user : {<<" ", " ">>, <<"u">>},
      password : {<<>>, <<"p">>},
      port : {0, 1, MaxPort, MaxPort + 1},
      driver : {DefaultDriver},
      encrypt : {"yes", "No", "true"},
      trust_server_certificate : {"no", "YES", ""},
      mars : {"no", "Yes", "on"},
      extra : {<<>>} ]

\* config.validate(), with what constructing a configuration from the same
\* field values does.
Validate ==
    /\ last.op = "init"
    /\ \E f \in FieldValues :
        last' = [op |-> "validate", m |-> None, fields |-> f,
                 raised |-> "none", ret |-> validate(f),
                 constructed |-> SQLServerConfig(f).raised = "none"]
    /\ UNCHANGED <<platform, auto_apply, OPENSSL_CONF, files, _connection,
                   _openssl_patch_file, opened, closed, scopes>>

InitConfig ==
    /\ platform = "linux"
    /\ auto_apply = [m \in Managers |-> TRUE]
    /\ OPENSSL_CONF = None
    /\ files = {}
    /\ _connection = [m \in Managers |-> None]
    /\ _openssl_patch_file = [m \in Managers |-> None]
    /\ opened = {}
    /\ closed = {}
    /\ scopes = [m \in Managers |-> 0]
    /\ last = [op |-> "init", m |-> None]

NextConfig ==
    \/ Construct
    \/ FromEnvironment
    \/ Validate
    \/ \E m \in Managers : BuildConnectionString(m)

SpecConfig == InitConfig /\ [][NextConfig]_vars

(* ------------------------------------------------------------------ *)
(* Properties of configurations and connection strings                 *)
(* ------------------------------------------------------------------ *)

\* The clauses of a connection string: the runs between the ";".
RECURSIVE Clauses(_)
Clauses(text) ==
    IF ~In(";", text) THEN <<text>>
    ELSE LET k == CHOOSE i \in DOMAIN text :
                      text[i] = ";" /\ \A j \in 1..(i - 1) : text[j] # ";"
         IN  <<SubSeq(text, 1, k - 1)>> \o Clauses(SubSeq(text, k + 1, Len(text)))

\* The number of `key=` clauses of a connection string.
ClauseCount(text, key) ==
    Cardinality({ i \in DOMAIN Clauses(text) :
                    /\ Len(Clauses(text)[i]) >= 2
                    /\ Clauses(text)[i][1] = key
                    /\ Clauses(text)[i][2] = "=" })

\* C15: the connection string built for a valid configuration, whatever
\* its extra parameters, has exactly one DRIVER=, SERVER=, DATABASE=, UID=
\* and PWD= clause, and has a Port= clause if and only if the configured
\* port is not 1433.
C15_OneClausePerKeyAndPortIffNotDefault ==
    Did({"_build_connection_string"}) =>
        /\ \A key \in {"DRIVER", "SERVER", "DATABASE", "UID", "PWD"} :
              ClauseCount(last.ret, key) = 1
        /\ (ClauseCount(last.ret, "Port") >= 1) <=> (last.config.port # 1433)

\* C16: with the encrypt flag "no" the connection string carries
\* Encrypt=no and TrustServerCertificate=yes whatever the configured trust
\* flag is; with any other encrypt value it carries the configured encrypt
\* and trust values as they are.
C16_TrustForcedWhenNotEncrypting ==
    Did({"_build_connection_string"}) =>
        IF last.config.encrypt = "no"
        THEN /\ Among(<<"Encrypt", "=", "no">>, Clauses(last.ret))
             /\ Among(<<"TrustServerCertificate", "=", "yes">>, Clauses(last.ret))
        ELSE /\ Among(<<"Encrypt", "=", last.config.encrypt>>, Clauses(last.ret))
             /\ Among(<<"TrustServerCertificate", "=", last.config.trust_server_certificate>>,
                      Clauses(last.ret))

\* C16, witness: a string built for encrypt "no" and trust flag "no".
C16_Witness ==
    /\ Did({"_build_connection_string"})
    /\ last.config.encrypt = "no"
    /\ last.config.trust_server_certificate = "no"
    /\ Among(<<"TrustServerCertificate", "=", "yes">>, Clauses(last.ret))

\* The keys of the clauses of a connection string, in the string's order.
KeysOf(text) == [i \in DOMAIN Clauses(text) |-> Clauses(text)[i][1]]

\* C17: the clauses of the connection string are, in this order, DRIVER,
\* SERVER, DATABASE, UID, PWD, Encrypt, TrustServerCertificate,
\* MARS_Connection (only if the MARS flag is "yes"), Connection Timeout=30,
\* Login Timeout=30, Port (only if the port is not 1433), then every extra
\* key=value pair in the order of the configuration; the string is these
\* clauses joined with ";".
C17_ClausesInFixedOrder ==
    Did({"_build_connection_string"}) =>
        LET c == last.config
            n == Len(Clauses(last.ret)) - Len(c.extra)
        IN  /\ KeysOf(last.ret) =
                   <<"DRIVER", "SERVER", "DATABASE", "UID", "PWD",
                     "Encrypt", "TrustServerCertificate">>
                   \o (IF c.mars = "yes" THEN <<"MARS_Connection">> ELSE <<>>)
                   \o <<"Connection Timeout", "Login Timeout">>
                   \o (IF c.port # 1433 THEN <<"Port">> ELSE <<>>)
                   \o [i \in DOMAIN c.extra |-> c.extra[i][1][1]]
            /\ Among(<<"Connection Timeout", "=", "30">>, Clauses(last.ret))
            /\ Among(<<"Login Timeout", "=", "30">>, Clauses(last.ret))
            /\ \A i \in DOMAIN c.extra :
                  Clauses(last.ret)[n + i] = c.extra[i][1] \o <<"=">> \o c.extra[i][2]
            /\ last.ret = Join(Clauses(last.ret), ";")

\* C17, witness: a string with every optional clause: MARS, a port that is
\* not the default, and two extras.
C17_Witness ==
    /\ Did({"_build_connection_string"})
    /\ last.config.mars = "yes"
    /\ last.config.port # 1433
    /\ Len(last.config.extra) = 2
    /\ ClauseCount(last.ret, "MARS_Connection") = 1

\* The names pyodbc.drivers() listed, none if the enumeration failed.
Installed(drivers) == IF drivers.raised THEN <<>> ELSE drivers.all

\* The installed drivers the claim lets the builder fall back to: the
\* preferred ones in the preference order, then the other installed
\* drivers whose name contains "SQL Server".
FallbackOrder(drivers) ==
    LET IsInstalled(d) == Among(d, Installed(drivers))
        IsOther(d) == In("SQL Server", d) /\ ~Among(d, preferred_drivers)
    IN  SelectSeq(<< <<"ODBC Driver 18 for ", "SQL Server">>,
                     <<"ODBC Driver 17 for ", "SQL Server">>,
                     <<"SQL Server", " Native Client 11.0">>,
                     <<"SQL Server">> >>, IsInstalled)
        \o SelectSeq(Installed(drivers), IsOther)

\* C18: the connection string names the configured driver whenever that
\* name is in the installed driver list; otherwise the first installed
\* driver in the order Driver 18, Driver 17, Native Client 11.0,
\* "SQL Server", other installed drivers whose name contains "SQL Server";
\* and the configured name when there is no such driver or the enumeration
\* failed.
C18_DriverSelection ==
    Did({"_build_connection_string"}) =>
        /\ Clauses(last.ret)[1] = <<"DRIVER", "=", "{">> \o last.driver \o <<"}">>
        /\ last.driver =
              IF Among(last.config.driver, Installed(last.drivers)) THEN last.config.driver
              ELSE IF FallbackOrder(last.drivers) # <<>> THEN FallbackOrder(last.drivers)[1]
              ELSE last.config.driver

\* C19: constructing a configuration raises the validation error exactly
\* when host, database, user or password is empty, or the port is outside
\* 1..65535, or one of the encrypt, trust-certificate and MARS flags is not
\* exactly "yes" or "no"; otherwise the configuration holds the values it
\* was given.
C19_ConstructionValidates ==
    Did({"SQLServerConfig"}) =>
        LET a == last.args
        IN  /\ (last.raised = "ValueError") <=>
                  \/ a.host = <<>> \/ a.database = <<>>
                  \/ a.user = <<>> \/ a.password = <<>>
                  \/ a.port \notin 1..65535
                  \/ a.encrypt \notin {"yes", "no"}
                  \/ a.trust_server_certificate \notin {"yes", "no"}
                  \/ a.mars \notin {"yes", "no"}
            /\ last.raised \in {"ValueError", "none"}
            /\ (last.raised = "none" => last.config = a)

\* C19, witness: port 65536 is rejected with everything else valid, and
\* the flag "No" would be rejected too.
C19_Witness ==
    /\ Did({"SQLServerConfig"})
    /\ last.raised = "ValueError"
    /\ last.args.port = 65536
    /\ last.args.host # <<>> /\ last.args.database # <<>>
    /\ last.args.user # <<>> /\ last.args.password # <<>>
    /\ last.args.encrypt = "no"
    /\ last.args.trust_server_certificate = "yes"
    /\ last.args.mars = "no"

\* The four required variables are set.
RequiredSet(env) ==
    /\ env.SQLSERVER_HOST.set /\ env.SQLSERVER_DATABASE.set
    /\ env.SQLSERVER_USER.set /\ env.SQLSERVER_PASSWORD.set

\* What the claim says of the configuration from_environment returns.
HoldsEnvironment(config, env) ==
    /\ config.host = env.SQLSERVER_HOST.value
    /\ config.database = env.SQLSERVER_DATABASE.value
    /\ config.user = env.SQLSERVER_USER.value
    /\ config.password = env.SQLSERVER_PASSWORD.value
    /\ (~env.SQLSERVER_PORT.set => config.port = 1433)
    /\ (~env.SQLSERVER_DRIVER.set => config.driver = <<"ODBC Driver 18 for ", "SQL Server">>)
    /\ (~env.SQLSERVER_ENCRYPT.set => config.encrypt = "no")
    /\ (~env.SQLSERVER_TRUST_CERT.set => config.trust_server_certificate = "yes")

\* C20, as stated: whenever the four required variables are set,
\* from_environment() returns a configuration with their values and the
\* defaults of the unset optional variables.
C20_Original ==
    (Did({"from_environment"}) /\ RequiredSet(last.env)) =>
        /\ last.raised = "none"
        /\ HoldsEnvironment(last.config, last.env)

\* The optional variables that are validated are unset or valid: the port
\* reads as a decimal integer in 1..65535, the two flags are "yes" or "no".
OptionalValid(env) ==
    /\ env.SQLSERVER_PORT.set =>
          /\ int(env.SQLSERVER_PORT.value).raised = "none"
          /\ int(env.SQLSERVER_PORT.value).value \in 1..65535
    /\ env.SQLSERVER_ENCRYPT.set => env.SQLSERVER_ENCRYPT.value \in {"yes", "no"}
    /\ env.SQLSERVER_TRUST_CERT.set => env.SQLSERVER_TRUST_CERT.value \in {"yes", "no"}

\* C20: from_environment() returns a configuration exactly when the four
\* required variables are set to non-empty values and each validated
\* optional variable is unset or valid, and raises ValueError otherwise;
\* the configuration holds the four values, the values of the optional
\* variables that are set, and the default of each that is unset.
C20_FromEnvironment ==
    Did({"from_environment"}) =>
        /\ last.raised \in {"none", "ValueError"}
        /\ (last.raised = "none") <=>
              /\ RequiredSet(last.env)
              /\ last.env.SQLSERVER_HOST.value # <<>>
              /\ last.env.SQLSERVER_DATABASE.value # <<>>
              /\ last.env.SQLSERVER_USER.value # <<>>
              /\ last.env.SQLSERVER_PASSWORD.value # <<>>
              /\ OptionalValid(last.env)
        /\ (last.raised = "none" =>
              /\ HoldsEnvironment(last.config, last.env)
              /\ (last.env.SQLSERVER_PORT.set =>
                    last.config.port = int(last.env.SQLSERVER_PORT.value).value)
              /\ (last.env.SQLSERVER_DRIVER.set =>
                    last.config.driver = last.env.SQLSERVER_DRIVER.value)
              /\ (last.env.SQLSERVER_ENCRYPT.set =>
                    last.config.encrypt = last.env.SQLSERVER_ENCRYPT.value)
              /\ (last.env.SQLSERVER_TRUST_CERT.set =>
                    last.config.trust_server_certificate = last.env.SQLSERVER_TRUST_CERT.value))

\* C20, witness: the four required variables are given, no optional one
\* is set, and the configuration returned has the four defaults.
C20_Witness ==
    /\ Did({"from_environment"})
    /\ RequiredSet(last.env)
    /\ ~last.env.SQLSERVER_PORT.set /\ ~last.env.SQLSERVER_DRIVER.set
    /\ ~last.env.SQLSERVER_ENCRYPT.set /\ ~last.env.SQLSERVER_TRUST_CERT.set
    /\ last.raised = "none"
    /\ last.config.port = 1433
    /\ last.config.encrypt = "no"

\* The names of the four required variables.
RequiredNames ==
    {"SQLSERVER_HOST", "SQLSERVER_DATABASE", "SQLSERVER_USER", "SQLSERVER_PASSWORD"}

\* The variable of the environment env that has the name n.
VarNamed(env, n) ==
    CASE n = "SQLSERVER_HOST" -> env.SQLSERVER_HOST
      [] n = "SQLSERVER_DATABASE" -> env.SQLSERVER_DATABASE
      [] n = "SQLSERVER_USER" -> env.SQLSERVER_USER
      [] n = "SQLSERVER_PASSWORD" -> env.SQLSERVER_PASSWORD

\* C21, as stated: when a required variable is not set, from_environment()
\* raises one error whose message names every required variable that is
\* not set and no variable that is set.
C21_Original ==
    (Did({"from_environment"}) /\ ~RequiredSet(last.env)) =>
        /\ last.raised = "ValueError"
        /\ \A n \in RequiredNames : In(n, last.msg) <=> ~VarNamed(last.env, n).set

\* C21: when a required variable is unset or set to the empty string,
\* from_environment() raises one error whose message names every required
\* variable that is unset or empty, each once, and no variable that is set
\* to a non-empty value.
C21_MessageNamesEveryMissingVariable ==
    (Did({"from_environment"})
       /\ \E n \in RequiredNames : NotGiven(VarNamed(last.env, n))) =>
        /\ last.raised = "ValueError"
        /\ Head(last.msg) = "Missing required environment variables: "
        /\ \A n \in RequiredNames :
              Cardinality({ i \in DOMAIN last.msg : last.msg[i] = n })
                = IF NotGiven(VarNamed(last.env, n)) THEN 1 ELSE 0

\* C21, witness: two required variables are missing, one of them unset and
\* one empty, and the message names both.
C21_Witness ==
    /\ Did({"from_environment"})
    /\ last.raised = "ValueError"
    /\ ~last.env.SQLSERVER_DATABASE.set
    /\ last.env.SQLSERVER_PASSWORD = SetTo(<<>>)
    /\ last.env.SQLSERVER_HOST.value # <<>> /\ last.env.SQLSERVER_USER.value # <<>>
    /\ In("SQLSERVER_DATABASE", last.msg) /\ In("SQLSERVER_PASSWORD", last.msg)

\* Every check the claim lists passes: the four texts are not blank, the
\* port is in 1..65535, the three flags are "yes" or "no" in any case.
EveryCheckPasses(f) ==
    /\ \A t \in {f.host, f.database, f.user, f.password} :
          \E i \in DOMAIN t : t[i] # " "
    /\ f.port \in 1..65535
    /\ \A flag \in {f.encrypt, f.trust_server_certificate, f.mars} :
          flag \in {"yes", "no", "Yes", "No", "YES", "NO"}

\* C22: validate() does not raise; the list it returns is empty exactly
\* when every check passes, and is not empty when a required field is
\* missing.
C22_ValidateListsProblems ==
    Did({"validate"}) =>
        /\ last.raised = "none"
        /\ (last.ret = <<>>) <=> EveryCheckPasses(last.fields)
        /\ (\E t \in {last.fields.host, last.fields.database,
                      last.fields.user, last.fields.password} : t = <<>>)
              => last.ret # <<>>

\* C22, witness: only the host is at fault, being blank, and validate()
\* returns one problem.
C22_Witness ==
    /\ Did({"validate"})
    /\ last.fields.host = <<" ">>
    /\ last.fields.database # <<>> /\ last.fields.password # <<>>
    /\ last.fields.user = <<"u">>
    /\ last.fields.port = 1
    /\ last.fields.encrypt = "No"
    /\ last.fields.trust_server_certificate = "YES"
    /\ last.fields.mars = "no"
    /\ last.ret = << <<"Host cannot be empty">> >>

\* C29, as stated: the two validators agree; what construction accepts
\* makes validate() return an empty list, and what validate() finds no
\* problem with is accepted by construction.
C29_Original ==
    Did({"validate"}) =>
        /\ (last.constructed => last.ret = <<>>)
        /\ (last.ret = <<>> => last.constructed)

\* A required text that is not empty but blank: construction takes it,
\* validate() reports it.
HasBlankText(f) ==
    \E t \in {f.host, f.database, f.user, f.password} :
        t # <<>> /\ \A i \in DOMAIN t : t[i] = " "

\* A flag that is "yes" or "no" in another letter case: validate() takes
\* it, construction rejects it.
HasFlagInOtherCase(f) ==
    \E flag \in {f.encrypt, f.trust_server_certificate, f.mars} :
        flag \in {"Yes", "No", "YES", "NO"}

\* C29: the two validators agree except on two kinds of field values.
\* Construction accepts and validate() reports a required text that is
\* blank but not empty; validate() accepts and construction rejects a flag
\* that is "yes" or "no" in another letter case.  On all other field
\* values, construction accepts exactly when validate() returns an empty
\* list.
C29_ValidatorsAgreeUpToBlanksAndCase ==
    Did({"validate"}) =>
        /\ (last.constructed /\ last.ret # <<>>) <=>
              (last.constructed /\ HasBlankText(last.fields))
        /\ (last.ret = <<>> /\ ~last.constructed) <=>
              (last.ret = <<>> /\ HasFlagInOtherCase(last.fields))
        /\ (~HasBlankText(last.fields) /\ ~HasFlagInOtherCase(last.fields))
              => (last.constructed <=> last.ret = <<>>)
        /\ (/\ HasBlankText(last.fields)
            /\ \A t \in {last.fields.host, last.fields.database,
                          last.fields.user, last.fields.password} : t # <<>>
            /\ last.fields.port \in 1..65535
            /\ \A flag \in {last.fields.encrypt, last.fields.trust_server_certificate,
                             last.fields.mars} : flag \in {"yes", "no"})
              => (last.constructed /\ last.ret # <<>>)
        /\ (HasFlagInOtherCase(last.fields) /\ EveryCheckPasses(last.fields))
              => (~last.constructed /\ last.ret = <<>>)

\* C29, witness: field values that both validators accept.
C29_Witness ==
    /\ Did({"validate"})
    /\ last.constructed
    /\ last.ret = <<>>
    /\ last.fields.host = <<" ", "db1", " ">>

(* ------------------------------------------------------------------ *)
(* QueryExecutor (src/src/query/query_executor.py) and ParquetWriter   *)
(* (src/src/export/parquet_writer.py)                                  *)
(*                                                                     *)
(* A result set is the cursor's column names and its rows, a row being *)
(* a tuple of values; a record is a function from column names to      *)
(* values.  `last` records each call; `files` holds the destination    *)
(* once something was written to it.                                   *)
(* ------------------------------------------------------------------ *)

\* A result set has at most this many columns.
MaxColumns == 2

\* A result set has at most this many rows.
MaxRows == 2

\* The names a column can have.
ColumnNames == {"id", "name"}

\* The values a row can hold; None is SQL NULL.
Values == {"1", "a", None}

\* The smaller of two numbers.
Min(a, b) == IF a <= b THEN a ELSE b

\* A zip that pairs the names with the row in reverse, so that the first
\* of two columns of one name wins.
zip_dict_first_wins(column_names, row) ==
    LET n == Min(Len(column_names), Len(row))
    IN  [ c \in { column_names[i] : i \in 1..n } |->
            row[CHOOSE i \in 1..n :
                    /\ column_names[i] = c
                    /\ \A j \in 1..(i - 1) : column_names[j] # c] ]

\* dict(zip(column_names, row)): zip stops at the shorter of the two, and
\* a key that comes again replaces the value it had.
zip_dict(column_names, row) ==
    LET n == Min(Len(column_names), Len(row))
    IN  [ c \in { column_names[i] : i \in 1..n } |->
            row[CHOOSE i \in 1..n :
                    /\ column_names[i] = c
                    /\ \A j \in (i + 1)..n : column_names[j] # c] ]

\* An execute_query whose cursor is closed only when nothing was raised.
execute_query_closing_on_success(c) ==
    IF c.failAt = "cursor"
    THEN [ret |-> None, raised |-> "cursor", cursorObtained |-> FALSE, closeCalls |-> 0]
    ELSE IF c.failAt # "none"
    THEN [ret |-> None, raised |-> c.failAt, cursorObtained |-> TRUE, closeCalls |-> 0]
    ELSE IF c.closeRaises
    THEN [ret |-> None, raised |-> "close", cursorObtained |-> TRUE, closeCalls |-> 1]
    ELSE [ret |-> [i \in DOMAIN c.rows |-> zip_dict(c.description, c.rows[i])],
          raised |-> "none", cursorObtained |-> TRUE, closeCalls |-> 1]

\* execute_query(query): c tells what the connection and its cursor do.
\* failAt is the call that raises (cursor(), execute(), reading
\* description, fetchall()) or "none"; closeRaises tells whether
\* cursor.close() raises.  raised names the call whose error leaves
\* execute_query: an error of close() in `finally` replaces the one that
\* was on its way.
execute_query(c) ==
    IF c.failAt = "cursor"
    THEN [ret |-> None, raised |-> "cursor", cursorObtained |-> FALSE, closeCalls |-> 0]
    ELSE IF c.closeRaises
    THEN [ret |-> None, raised |-> "close", cursorObtained |-> TRUE, closeCalls |-> 1]
    ELSE IF c.failAt # "none"
    THEN [ret |-> None, raised |-> c.failAt, cursorObtained |-> TRUE, closeCalls |-> 1]
    ELSE [ret |-> [i \in DOMAIN c.rows |-> zip_dict(c.description, c.rows[i])],
          raised |-> "none", cursorObtained |-> TRUE, closeCalls |-> 1]

\* The result sets of a cursor: column names, and rows with one value
\* for each column.
ResultSets ==
    UNION { UNION { [description : [1..n -> ColumnNames],
                     rows : [1..k -> [1..n -> Values]]] : k \in 0..MaxRows }
            : n \in 0..MaxColumns }

\* What the connection and its cursor do during one execute_query.
CursorBehaviours ==
    { [failAt |-> "none", closeRaises |-> cr, description |-> r.description, rows |-> r.rows] :
        cr \in BOOLEAN, r \in ResultSets }
    \cup { [failAt |-> f, closeRaises |-> cr, description |-> <<>>, rows |-> <<>>] :
            f \in {"execute", "description", "fetchall"}, cr \in BOOLEAN }
    \cup { [failAt |-> "cursor", closeRaises |-> FALSE, description |-> <<>>, rows |-> <<>>] }

\* The destination the exporter writes to.
Destination == "out.parquet"

\* What pd.DataFrame(data) and df.to_parquet(file_path) do: each returns or
\* raises; a to_parquet that raises may have created the file already.
WriterBehaviours ==
    { [frame |-> "raises", write |-> "none"],
      [frame |-> "ok", write |-> "ok"],
      [frame |-> "ok", write |-> "raises"],
      [frame |-> "ok", write |-> "raises after creating"] }

\* A write_to_parquet without the test for empty data.
write_to_parquet_without_guard(data, file_path, w) ==
    IF w.frame = "raises"
    THEN [raised |-> "DataFrame", tablesBuilt |-> 0, writes |-> <<>>, touched |-> FALSE]
    ELSE [raised |-> IF w.write = "ok" THEN "none" ELSE "to_parquet",
          tablesBuilt |-> 1, writes |-> <<file_path>>,
          touched |-> w.write # "raises"]

\* write_to_parquet(data, file_path): tablesBuilt counts the DataFrames
\* that were built, writes lists the paths to_parquet was called with,
\* touched tells whether the destination was created or modified.
write_to_parquet(data, file_path, w) ==
    IF data = <<>>
    THEN [raised |-> "ValueError", tablesBuilt |-> 0, writes |-> <<>>, touched |-> FALSE]
    ELSE IF w.frame = "raises"
    THEN [raised |-> "DataFrame", tablesBuilt |-> 0, writes |-> <<>>, touched |-> FALSE]
    ELSE [raised |-> IF w.write = "ok" THEN "none" ELSE "to_parquet",
          tablesBuilt |-> 1, writes |-> <<file_path>>,
          touched |-> w.write # "raises"]

\* QueryExecutor(connection).execute_query(query)
ExecuteQuery ==
    /\ last.op = "init"
    /\ \E c \in CursorBehaviours :
        LET r == execute_query(c)
        IN  last' = [op |-> "execute_query", m |-> None, cursor |-> c,
                     ret |-> r.ret, raised |-> r.raised,
                     cursorObtained |-> r.cursorObtained, closeCalls |-> r.closeCalls]
    /\ UNCHANGED <<platform, auto_apply, OPENSSL_CONF, files, _connection,
                   _openssl_patch_file, opened, closed, scopes>>

\* ParquetWriter().write_to_parquet(data, file_path), for the records the
\* query returned.
WriteToParquet ==
    /\ last.op = "execute_query"
    /\ last.raised = "none"
    /\ \E w \in WriterBehaviours :
        LET r == write_to_parquet(last.ret, Destination, w)
        IN  /\ last' = [op |-> "write_to_parquet", m |-> None, data |-> last.ret,
                        file_path |-> Destination, existed |-> Destination \in files,
                        raised |-> r.raised, tablesBuilt |-> r.tablesBuilt,
                        writes |-> r.writes, touched |-> r.touched]
            /\ files' = IF r.touched THEN files \cup {Destination} ELSE files
    /\ UNCHANGED <<platform, auto_apply, OPENSSL_CONF, _connection,
                   _openssl_patch_file, opened, closed, scopes>>

InitExport ==
    /\ platform = "linux"
    /\ auto_apply = [m \in Managers |-> TRUE]
    /\ OPENSSL_CONF = None
    /\ files \in {{}, {Destination}}
    /\ _connection = [m \in Managers |-> None]
    /\ _openssl_patch_file = [m \in Managers |-> None]
    /\ opened = {}
    /\ closed = {}
    /\ scopes = [m \in Managers |-> 0]
    /\ last = [op |-> "init", m |-> None]

NextExport ==
    \/ ExecuteQuery
    \/ WriteToParquet

SpecExport == InitExport /\ [][NextExport]_vars

(* ------------------------------------------------------------------ *)
(* Properties of the query executor and the parquet writer             *)
(* ------------------------------------------------------------------ *)

\* C23: execute_query() calls close() exactly once on the cursor it
\* obtained, on every exit path: when execute() raises, when reading the
\* metadata or fetching the rows raises, and on normal return; and once
\* the cursor is closed the error that leaves is the original one.
C23_CursorClosedOnceOnEveryPath ==
    (Did({"execute_query"}) /\ last.cursorObtained) =>
        /\ last.closeCalls = 1
        /\ (~last.cursor.closeRaises => last.raised = last.cursor.failAt)

\* C23, witness: fetchall() raised, the cursor was closed and the error
\* of fetchall() left execute_query.
C23_Witness ==
    /\ Did({"execute_query"})
    /\ last.cursor.failAt = "fetchall"
    /\ last.closeCalls = 1
    /\ last.raised = "fetchall"

\* C24: execute_query() returns one record for each fetched row, in the
\* cursor's row order (no rows, no records); the keys of a record are the
\* column names, the j-th name has the j-th value of the row, NULL
\* included, and of several columns of one name the last gives the value.
C24_OneRecordPerRow ==
    (Did({"execute_query"}) /\ last.raised = "none") =>
        LET names == last.cursor.description
            rows  == last.cursor.rows
        IN  /\ Len(last.ret) = Len(rows)
            /\ \A i \in DOMAIN rows :
                  /\ DOMAIN last.ret[i] = { names[j] : j \in DOMAIN names }
                  /\ \A j \in DOMAIN names :
                        (\A k \in DOMAIN names : k > j => names[k] # names[j])
                            => last.ret[i][names[j]] = rows[i][j]

\* C24, witness: two rows of two columns of the same name, with different
\* values and a NULL; each record has the value of the second column.
C24_Witness ==
    /\ Did({"execute_query"})
    /\ last.raised = "none"
    /\ last.cursor.description = <<"id", "id">>
    /\ last.cursor.rows = << <<"1", None>>, <<"a", "1">> >>
    /\ last.ret[1]["id"] = None
    /\ last.ret[2]["id"] = "1"

\* C25: write_to_parquet() with no records raises ValueError, builds no
\* table and leaves the destination as it was; with records it builds one
\* table and calls to_parquet once, with the given path, and an error of
\* to_parquet leaves write_to_parquet.
C25_EmptyDataRaisesBeforeAnyWrite ==
    Did({"write_to_parquet"}) =>
        IF last.data = <<>>
        THEN /\ last.raised = "ValueError"
             /\ last.tablesBuilt = 0
             /\ last.writes = <<>>
             /\ ~last.touched
             /\ (Destination \in files) = last.existed
        ELSE /\ last.raised # "ValueError"
             /\ last.raised \in {"none", "to_parquet"} =>
                   (last.tablesBuilt = 1 /\ last.writes = <<last.file_path>>)
             /\ last.raised = "none" => Destination \in files

\* C25, witness: the query returned no row, the destination did not
\* exist, and after the ValueError it still does not.
C25_Witness ==
    /\ Did({"write_to_parquet"})
    /\ last.data = <<>>
    /\ last.raised = "ValueError"
    /\ ~last.existed
    /\ Destination \notin files

(* ------------------------------------------------------------------ *)
(* The pre-flight check                                                *)
(* (SQLServerConnection.validate_connection_prerequisites)             *)
(* ------------------------------------------------------------------ *)

\* A pre-flight check that recommends the configured driver.
prerequisites_recommending_configured_driver(config, drivers, versionRaises, configRaises) ==
    LET available_drivers == _detect_odbc_drivers(drivers)
    IN  [odbc_drivers_available |-> available_drivers,
         recommended_driver |->
            IF available_drivers # <<>> THEN config.driver ELSE None,
         pyodbc_version |-> IF versionRaises THEN None ELSE "pyodbc.version",
         config_issues |->
            (IF versionRaises THEN << <<"pyodbc error: ">> >> ELSE <<>>)
            \o (IF available_drivers = <<>>
                THEN << <<"No SQL Server ODBC drivers found">> >> ELSE <<>>)
            \o (IF configRaises THEN << <<"Config validation error: ">> >>
                ELSE (IF config.host = <<>> THEN << <<"Host cannot be empty">> >> ELSE <<>>)
                     \o (IF config.user = <<>> THEN << <<"Username cannot be empty">> >> ELSE <<>>)
                     \o (IF config.password = <<>>
                         THEN << <<"Password cannot be empty">> >> ELSE <<>>)),
         config_valid |->
            /\ ~versionRaises
            /\ available_drivers # <<>>
            /\ ~configRaises
            /\ config.host # <<>> /\ config.user # <<>> /\ config.password # <<>>,
         raised |-> "none",
         connectCalls |-> 0]

\* validate_connection_prerequisites(): drivers is what pyodbc.drivers()
\* does, versionRaises whether reading pyodbc.version raises, configRaises
\* whether reading the configuration's attributes raises.  connectCalls
\* counts the calls of pyodbc.connect.
validate_connection_prerequisites(config, drivers, versionRaises, configRaises) ==
    LET available_drivers == _detect_odbc_drivers(drivers)
    IN  [odbc_drivers_available |-> available_drivers,
         recommended_driver |->
            IF available_drivers # <<>> THEN available_drivers[1] ELSE None,
         pyodbc_version |-> IF versionRaises THEN None ELSE "pyodbc.version",
         config_issues |->
            (IF versionRaises THEN << <<"pyodbc error: ">> >> ELSE <<>>)
            \o (IF available_drivers = <<>>
                THEN << <<"No SQL Server ODBC drivers found">> >> ELSE <<>>)
            \o (IF configRaises THEN << <<"Config validation error: ">> >>
                ELSE (IF config.host = <<>> THEN << <<"Host cannot be empty">> >> ELSE <<>>)
                     \o (IF config.user = <<>> THEN << <<"Username cannot be empty">> >> ELSE <<>>)
                     \o (IF config.password = <<>>
                         THEN << <<"Password cannot be empty">> >> ELSE <<>>)),
         config_valid |->
            /\ ~versionRaises
            /\ available_drivers # <<>>
            /\ ~configRaises
            /\ config.host # <<>> /\ config.user # <<>> /\ config.password # <<>>,
         raised |-> "none",
         connectCalls |-> 0]

\* The configurations the pre-flight check is run on: the texts it reads
\* are empty or not, as constructed or as assigned to since.
PrerequisiteConfigs ==
    { f \in FieldValues :
        /\ f.port = 1
        /\ f.encrypt = "yes" /\ f.trust_server_certificate = "no" /\ f.mars = "no" }

\* manager.validate_connection_prerequisites()
ValidateConnectionPrerequisites(m) ==
    /\ last.op = "init"
    /\ \E f \in PrerequisiteConfigs, d \in InstalledDrivers,
          versionRaises \in BOOLEAN, configRaises \in BOOLEAN :
        LET r == validate_connection_prerequisites(f, d, versionRaises, configRaises)
        IN  last' = [op |-> "validate_connection_prerequisites", m |-> m,
                     pre |-> Pre(m), config |-> f, drivers |-> d,
                     results |-> r, raised |-> r.raised, connectCalls |-> r.connectCalls]
    /\ UNCHANGED <<platform, auto_apply, OPENSSL_CONF, files, _connection,
                   _openssl_patch_file, opened, closed, scopes>>

NextPrerequisites == \E m \in Managers : ValidateConnectionPrerequisites(m)

SpecPrerequisites == InitConfig /\ [][NextPrerequisites]_vars

\* C26: validate_connection_prerequisites() opens no connection and does
\* not raise; config_valid is true exactly when config_issues is empty,
\* recommended_driver is the first of odbc_drivers_available and absent
\* when that list is empty, and with an empty list config_valid is false.
C26_PrerequisitesDiagnoseOnly ==
    Did({"validate_connection_prerequisites"}) =>
        LET r == last.results
        IN  /\ last.raised = "none"
            /\ last.connectCalls = 0
            /\ opened = {} /\ _connection[last.m] = None
            /\ r.config_valid <=> (r.config_issues = <<>>)
            /\ IF r.odbc_drivers_available = <<>>
               THEN r.recommended_driver = None /\ ~r.config_valid
               ELSE r.recommended_driver = r.odbc_drivers_available[1]

\* C26, witness: two SQL Server drivers are installed, listed against the
\* preference order, the configuration is complete, and the check
\* recommends Driver 18.
C26_Witness ==
    /\ Did({"validate_connection_prerequisites"})
    /\ last.drivers.all = << <<"SQL Server">>, <<"ODBC Driver 18 for ", "SQL Server">> >>
    /\ last.results.config_valid
    /\ last.results.recommended_driver = <<"ODBC Driver 18 for ", "SQL Server">>
    /\ last.config.driver = DefaultDriver

(* ------------------------------------------------------------------ *)
(* Further properties of the connection manager                        *)
(* ------------------------------------------------------------------ *)

\* The calls a program makes on a manager.
ManagerCalls == {"connect", "close", "is_connected", "__enter__", "__exit__"}

\* C27, as stated: a call on the manager that finds OPENSSL_CONF set to a
\* value the manager did not set leaves OPENSSL_CONF with that value, and
\* a call unsets the variable only when it equals the path of the policy
\* file the manager tracks.
C27_Original ==
    Did(ManagerCalls) =>
        /\ (last.pre.env # None /\ last.pre.env # PatchPath)
              => OPENSSL_CONF = last.pre.env
        /\ (last.pre.env # None /\ OPENSSL_CONF = None)
              => last.pre.env = last.pre.patch

\* C27: a call on the manager that finds OPENSSL_CONF set to a non-empty
\* value the manager did not set leaves OPENSSL_CONF with that value, and
\* a call changes a non-empty OPENSSL_CONF only by unsetting it when it
\* equals the path of the policy file the manager tracks.
C27_NonEmptyExternalValueKept ==
    Did(ManagerCalls) =>
        /\ (Truthy(last.pre.env) /\ last.pre.env # PatchPath)
              => OPENSSL_CONF = last.pre.env
        /\ (Truthy(last.pre.env) /\ OPENSSL_CONF # last.pre.env)
              => (last.pre.env = last.pre.patch /\ OPENSSL_CONF = None)

\* C27, witness: close() on a manager that tracks its policy file while
\* OPENSSL_CONF holds an operator's value: the file is removed, the value
\* stays.
C27_Witness ==
    /\ Did({"close"})
    /\ last.pre.env = ExternalConf
    /\ last.pre.patch = PatchPath
    /\ last.pre.exists
    /\ PatchPath \notin files
    /\ OPENSSL_CONF = ExternalConf

\* C28: a connect() that raises leaves the manager without a handle; a
\* connect() on a manager without a handle, be it after a connect() that
\* raised or after close(), makes an open attempt of its own, and the
\* handle it returns and stores is a new one, none that was closed;
\* close() leaves the manager without a handle.
C28_FailedConnectLeavesUnopened ==
    /\ (Did({"connect", "__enter__"}) /\ last.raised # "none")
          => (last.pre.conn = None /\ _connection[last.m] = None)
    /\ (Did({"connect", "__enter__"}) /\ last.pre.conn = None)
          => /\ last.attempts >= 1
             /\ last.raised = "none" =>
                   /\ last.ret # None
                   /\ last.ret \notin closed
                   /\ _connection[last.m] = last.ret
                   /\ Live(last.m) = {[id |-> last.ret, owner |-> last.m]}
    /\ Did({"close", "__exit__"}) => _connection[last.m] = None

\* C28, witness: a connect() that succeeds after an earlier handle of the
\* manager was closed.
C28_Witness ==
    /\ Did({"connect"})
    /\ last.pre.conn = None
    /\ last.raised = "none"
    /\ closed # {}
    /\ last.ret \notin closed

\* C30: after any is_connected(), whether the probe succeeded or failed,
\* the cursor that is_connected() opened has had its close() called.
C30_ProbeCursorReleased ==
    (Did({"is_connected"}) /\ last.cursorOpened) => last.cursorCloseCalled

====
